---- MODULE Spec2Model ----
(***************************************************************************)
(* Node-agent data-mover controllers of Velero: the DataUpload /           *)
(* DataDownload reconcilers, the DataPathManager and the resume sweeper.   *)
(*                                                                         *)
(* The reconcilers and the manager are exercised by                        *)
(* pkg/controller/data_download_controller_test.go; where that file pins   *)
(* a behaviour the definition below follows it, and the rest follows the   *)
(* design text (sections 4.1 - 4.6).                                       *)
(***************************************************************************)
EXTENDS Integers, FiniteSets, Sequences, TLC

(* ----------------------------- bounds --------------------------------- *)

\* the clock runs from 1 to MaxTime, in units of the prepare timeout's length
MaxTime == 3
\* largest bytesDone a session reports
MaxBytes == 1
\* largest totalBytes and bytesDone of a session whose reports are followed
MaxDone == 2
\* backoffs of UpdateWithRetry that fit before the caller's context deadline
MaxBackoffs == 2
\* updates by another writer while UpdateWithRetry runs
MaxWrites == 3
\* node-agent restarts in one behaviour
MaxCrashes == 1
\* calls of exposer.CleanUp for one request that are told apart
MaxCleanUps == 2

\* calls of restorePodVolume for one PodVolumeRestore that are told apart
MaxRestores == 2

Nodes == {"n1", "n2"}
Names == {"du1", "du2"}
NoNode == ""

\* a pod without the DataUpload label, and the labels a pod may carry: the
\* name of a request or a name no request has
NoLabel == ""
PodLabels == Names \cup {NoLabel, "non-existing-dataupload"}

\* velerov1api.DefaultNamespace
DefaultNamespace == "velero"

\* goroutines calling one DataPathManager, and the names they ask for
Callers == {"c1", "c2"}
JobNames == {"du1", "du2", "du3"}
NoCaller == ""

\* datapath.NewManager(1)
ConcurrentLimit == 1
\* the ceiling of the manager that is exercised on its own
MgrLimit == 2
\* the preparingTimeout handed to the reconciler (time.Minute*5): one unit
preparingTimeout == 1

\* the pods, and the PodVolumeRestore, which is named as its pod is
PodNames == {"p1", "p2"}
PvrNames == {"p1"}
\* the PodReconciler and the PodVolumeRestoreReconciler of the node
Controllers == {"pod", "pvr"}
\* c.nodeName
nodeName == "n1"
\* restic.InitContainer
InitContainer == "restic-wait"

Phases == {"New", "Accepted", "Prepared", "InProgress", "Canceling",
           "Completed", "Failed", "Canceled"}
Terminal == {"Completed", "Failed", "Canceled"}

(* ------------------------------ state --------------------------------- *)

VARIABLES
    store,      \* the cluster's declarative store: name -> request record
    now,        \* wall clock
    running,    \* node -> whether that node's agent is running
    crashes,    \* restarts so far
    pc,         \* node -> name -> position of that node's reconcile of the key
    snap,       \* node -> name -> the copy of the record that reconcile read
    registry,   \* node -> the names registered in its DataPathManager
    sess,       \* name -> state of the data-mover session of that request
    exposed,    \* name -> node the hosting pod was requested for, or NoNode
    cleanups,   \* name -> calls of exposer.CleanUp for the request so far
    rebound,    \* name -> outcome of exposer.RebindVolume for the request
    delivered,  \* name -> the Progress of the last OnProgress callback
    enqueued,   \* the last pod event: the pod's label and the requests enqueued
    swept,      \* node -> how the ResumeSweeper of its last startup ended
    tracker,    \* a DataPathManager on its own: the names it has registered
    trackerLock,\* the caller inside that manager's critical section
    call,       \* caller -> the manager call it is making
    open,       \* name -> sessions instantiated for it and not yet closed
    obj,        \* the record UpdateWithRetry is called for, as stored
    retry,      \* the call of UpdateWithRetry: where it is and what it holds
    faults,     \* the errors the client is made to return
    writes,     \* updates of the record by another writer so far
    pvrs,       \* the store's PodVolumeRestores: name -> record
    pods,       \* the store's pods: name -> pod
    work,       \* controller -> the Reconcile it is running
    restores    \* name -> calls of restorePodVolume for that PodVolumeRestore

\* the requests, the node agents and their reconcilers
agentVars == <<store, now, running, crashes, pc, snap, registry, sess, exposed,
               cleanups, rebound, delivered, enqueued, swept>>

\* a DataPathManager and the goroutines calling it
mgrVars == <<tracker, trackerLock, call, open>>

\* a call of UpdateWithRetry, the record it is for and the record's other
\* writer
retryVars == <<obj, retry, faults, writes>>

\* the PodVolumeRestores, their pods and the two reconcilers that process them
pvrVars == <<pvrs, pods, work, restores>>

vars == <<agentVars, mgrVars, retryVars, pvrVars>>

\* the record the producer creates: phase "" (treated as New), no finalizer
NewRecord ==
    [phase |-> "New", node |-> NoNode, cancel |-> FALSE, start |-> 0,
     completion |-> 0, message |-> "", totalBytes |-> 0, bytesDone |-> 0,
     deleting |-> FALSE, finalizer |-> FALSE,
     dataMover |-> "velero", snapshotType |-> "CSI"]

\* spec.dataMover and spec.snapshotType of the records a producer creates
DataMovers == {"velero", "unknown type"}
SnapshotTypes == {"CSI", "unknown type"}

\* a reconciler that takes every record for its own, whatever its data mover
AnyDataMover(dataMover) == TRUE

\* spec.dataMover names this mover
IsBuiltInUploader(dataMover) == dataMover = "velero"

\* a reconciler that finds an exposer for every snapshot type
AnySnapshotType(snapshotType) == TRUE

\* snapshotExposerList has an exposer for the snapshot type
HasExposer(snapshotType) == snapshotType = "CSI"

\* a reconciler that takes a missing record for one that is there
NotFoundIgnored(rec) == FALSE

\* a record with deletionTimestamp set and no finalizer is no longer in the
\* store: a Get of it is NotFound
Gone(rec) == rec.deleting /\ ~rec.finalizer

\* the Get of the record's key answers NotFound
IsNotFound(rec) == Gone(rec)

\* a timeout that is already due when the elapsed time equals T_prepare
TimedOutAtBoundary(rec) == rec.start # 0 /\ now - rec.start >= preparingTimeout

\* now - startTimestamp > T_prepare
TimedOut(rec) == rec.start # 0 /\ now - rec.start > preparingTimeout

\* The copy a reconcile works on: the fields it reads, and whether the
\* prepare timeout was due when the rules were evaluated on it. Of the
\* record's resourceVersion only equality with the stored one is ever tested,
\* so the copy carries whether a write has reached the record since it was
\* read.
Copy(rec) ==
    [phase |-> rec.phase, node |-> rec.node, cancel |-> rec.cancel,
     start |-> rec.start, deleting |-> rec.deleting, due |-> TimedOut(rec),
     stale |-> FALSE]

\* what a reconcile holds when it is not running
NoSnap == Copy(NewRecord)

\* uploader.Progress{TotalBytes, BytesDone}
Progress(total, done) == [totalBytes |-> total, bytesDone |-> done]

\* no OnProgress callback yet
NoProgress == Progress(0, 0)

\* FakeClient.getError, updateError and updateConflict
Faults == {"get", "update", "conflict"}

\* UpdateWithRetry has not been called
NotCalled ==
    [at |-> "idle", copy |-> [version |-> 0, cancel |-> FALSE, annotation |-> 0],
     left |-> MaxBackoffs, result |-> "none"]

\* a caller that is not inside a manager call
NoCall == [op |-> "none", name |-> "", at |-> "idle", accepted |-> FALSE]

\* the node agents have just started and nothing has been asked of them
\* a PodVolumeRestore as it is created, for the pod named
NewPVR(p) ==
    [phase |-> "New", start |-> 0, completion |-> 0, message |-> "", pod |-> p]

\* a pod on the node whose restic-wait init container is running
RunningPod ==
    [node |-> nodeName, initContainers |-> <<InitContainer>>,
     statuses |-> <<"running">>]

\* the pods a restore may meet: on this node or another, with the restic-wait
\* init container missing, first or second, and with init container
\* statuses reported for none, some or all of them
PodShapes ==
    {[node |-> n, initContainers |-> cs, statuses |-> ss] :
        n \in Nodes,
        cs \in {<<>>, <<InitContainer>>, <<"other", InitContainer>>},
        ss \in {<<>>, <<"running">>, <<"waiting">>, <<"running", "running">>,
                <<"running", "waiting">>}}

\* a controller that runs no Reconcile
NoWork == [at |-> "idle", key |-> "", req |-> NewPVR(""), result |-> "none"]

\* the PodVolumeRestores wait for pods that run the init container
PodVolumeRestoresCreated ==
    /\ pvrs = [v \in PvrNames |-> NewPVR(v)]
    /\ pods = [p \in PodNames |-> RunningPod]

Started ==
    /\ now = 1
    /\ running = [n \in Nodes |-> TRUE]
    /\ crashes = 0
    /\ pc = [n \in Nodes |-> [r \in Names |-> "idle"]]
    /\ snap = [n \in Nodes |-> [r \in Names |-> NoSnap]]
    /\ registry = [n \in Nodes |-> {}]
    /\ sess = [r \in Names |-> "none"]
    /\ exposed = [r \in Names |-> NoNode]
    /\ cleanups = [r \in Names |-> 0]
    /\ rebound = [r \in Names |-> "no"]
    /\ delivered = [r \in Names |-> NoProgress]
    /\ enqueued = [label |-> NoLabel, requests |-> <<>>]
    /\ swept = [n \in Nodes |-> "ok"]
    /\ tracker = {}
    /\ trackerLock = NoCaller
    /\ call = [c \in Callers |-> NoCall]
    /\ open = [j \in JobNames |-> 0]
    /\ obj = [version |-> 0, cancel |-> FALSE, annotation |-> 0]
    /\ retry = NotCalled
    /\ writes = 0
    /\ work = [c \in Controllers |-> NoWork]
    /\ restores = [v \in PvrNames |-> 0]

Init ==
    /\ store = [r \in Names |-> NewRecord]
    /\ faults = {}
    /\ Started
    /\ PodVolumeRestoresCreated

\* the client is made to fail as the test cases make it: errors[0], errors[2]
\* and errors[4] of the reconciler's fake client
RetryInit ==
    /\ store = [r \in Names |-> NewRecord]
    /\ faults \in SUBSET Faults
    /\ Started
    /\ PodVolumeRestoresCreated

\* the producer has created the requests for some data mover and some
\* snapshot type
MoverInit ==
    /\ \E m \in DataMovers, t \in SnapshotTypes :
          store = [r \in Names |->
                     [NewRecord EXCEPT !.dataMover = m, !.snapshotType = t]]
    /\ faults = {}
    /\ Started
    /\ PodVolumeRestoresCreated

(* ------------------------- the store's writes ------------------------- *)

\* an Update that is never refused: the last writer wins
UpdateNeverConflicts(copy) == FALSE

\* client.Update / a CAS patch: refused with a conflict when a write has
\* reached the record since the caller's copy was read
UpdateConflicts(copy) == copy.stale

\* a write reaches record r: every copy of it held by a reconcile is now old
Written(r) ==
    [n \in Nodes |-> [x \in Names |->
        IF x = r /\ pc[n][x] # "idle"
        THEN [snap[n][x] EXCEPT !.stale = TRUE]
        ELSE snap[n][x]]]

\* a mutator sets some fields of the record and leaves the others; a record
\* that is gone is NotFound and nothing is written
Mutated(rec, fields) ==
    IF Gone(rec)
    THEN rec
    ELSE [f \in DOMAIN rec |-> IF f \in DOMAIN fields THEN fields[f] ELSE rec[f]]

\* UpdateDataUploadWithRetry: read the record, apply the mutator, update; a
\* conflict re-reads and retries, so the mutator lands on the latest version
UpdateWithRetry(r, fields) == Mutated(store[r], fields)

(* --------------------------- DataPathManager -------------------------- *)

\* a Create that only looks for the name, not at the ceiling
RefusedByNameOnly(reg, name, limit) == name \in reg

\* a Create that only looks at the ceiling, not for the name
RefusedByCeilingOnly(reg, name, limit) == Cardinality(reg) >= limit

\* Create refuses when the registry is full or the name is present
Refused(reg, name, limit) == Cardinality(reg) >= limit \/ name \in reg

\* a Create that hands out the slot without registering it
CreateUnregistered(reg, name, limit) == reg


CreateFileSystemBR(reg, name, limit) ==
    IF Refused(reg, name, limit) THEN reg ELSE reg \cup {name}

\* a Remove that leaves the entry in place
RemoveNothing(reg, name) == reg


RemoveAsyncBR(reg, name) == reg \ {name}

GetAsyncBR(reg, name) == name \in reg

(* ------------------------------ helpers ------------------------------- *)

\* errorOut and the terminal handlers set the terminal phase, the message
\* and completionTimestamp
Terminate(phase, msg) ==
    [phase |-> phase, message |-> msg, completion |-> now]

\* what onPrepareTimeout writes: the phase and the message, and no
\* completionTimestamp
PrepareTimedOut(rec) ==
    [rec EXCEPT !.phase = "Failed", !.message = "prepare timeout"]

\* the positions of a key whose Reconcile is not running, by what the last
\* Reconcile returned: ctrl.Result{} and no error, ctrl.Result{Requeue: true,
\* RequeueAfter: 5 s}, or an error; the work queue may hand the key out again
Waiting == {"idle", "requeue", "error"}

\* Reconcile returns ctrl.Result{}, nil
Return(n, r) == pc' = [pc EXCEPT ![n][r] = "idle"]

\* Reconcile returns ctrl.Result{Requeue: true, RequeueAfter: 5 s}, nil
RequeueAfter5s(n, r) == pc' = [pc EXCEPT ![n][r] = "requeue"]

\* an error that is logged and not returned
ErrorSwallowed(n, r) == Return(n, r)

\* Reconcile returns an error
ReturnError(n, r) == pc' = [pc EXCEPT ![n][r] = "error"]

\* the reconcile of (n, r) returns after a write reached r
WroteAndLeft(n, r) == snap' = [Written(r) EXCEPT ![n][r] = NoSnap]

\* the reconcile of (n, r) returns without having written
Left(n, r) == snap' = [snap EXCEPT ![n][r] = NoSnap]

\* a terminal path that leaves the hosting pod where it is
CleanUpSkipped(r) == cleanups' = cleanups

\* exposer.CleanUp(owner): the hosting pod is torn down; calling it again is
\* harmless and counted
CleanUp(r) ==
    cleanups' = [cleanups EXCEPT ![r] = IF @ < MaxCleanUps THEN @ + 1 ELSE @]

\* the record is failed and the exposer cleaned up
FailAndCleanUp(r, msg) ==
    /\ store' = [store EXCEPT ![r] =
          UpdateWithRetry(r, Terminate("Failed", msg))]
    /\ CleanUp(r)
    /\ exposed' = [exposed EXCEPT ![r] = NoNode]

(* ----------------------------- Reconcile ------------------------------ *)

\* a node that treats every record as its own
OwnsAnything(n, rec) == TRUE

\* status.node = self
Owns(n, rec) == rec.node = n

\* GetExposed(owner, nodeName) has a result only on the node the hosting pod
\* was requested for; on any other node, or with the pod gone, it is nil
Scheduled(n, r) == exposed[r] = n

\* a reconciler that does not look at deletionTimestamp
DeletionUnnoticed(rec) == FALSE

\* deletionTimestamp is set on a record that holds the finalizer, is not in
\* a final state and is not cancelled yet
MarkedForDeletion(rec) ==
    rec.deleting /\ rec.finalizer /\ ~rec.cancel /\ rec.phase \notin Terminal

\* the store client's Get answers with the record (or not-found), not with
\* another error
GetWorks == "get" \notin faults

\* a phase dispatch that takes up a record in a final phase again
TerminalReprocessed(n, r, rec) ==
    \/ rec.phase = "Canceling"
    \/ rec.phase = "InProgress" /\ ~(rec.cancel /\ GetAsyncBR(registry[n], r))
    \/ rec.phase = "Accepted" /\ ~TimedOut(rec) /\ ~Owns(n, rec)
    \/ rec.phase = "Prepared" /\ ~Scheduled(n, r)
    \/ ~IsBuiltInUploader(rec.dataMover)

\* no rule of the phase dispatch applies on this node: terminal without a
\* finalizer to remove, Canceling, InProgress without a cancel request or
\* without a session here, Accepted by another node and not timed out,
\* Prepared with the hosting pod elsewhere, or a record of another data mover
NoPhaseRule(n, r, rec) ==
    \/ rec.phase \in Terminal /\ ~(rec.deleting /\ rec.finalizer)
    \/ rec.phase = "Canceling"
    \/ rec.phase = "InProgress" /\ ~(rec.cancel /\ GetAsyncBR(registry[n], r))
    \/ rec.phase = "Accepted" /\ ~TimedOut(rec) /\ ~Owns(n, rec)
    \/ rec.phase = "Prepared" /\ ~Scheduled(n, r)
    \/ ~IsBuiltInUploader(rec.dataMover)

\* the record is missing (rule 1), or it needs no cancel mark and no rule of
\* the phase dispatch applies
NothingToDo(n, r, rec) ==
    \/ IsNotFound(rec)
    \/ ~MarkedForDeletion(rec) /\ NoPhaseRule(n, r, rec)

\* Reconcile: get the record of the key; a rule applies to it
ReconcileGet(n, r) ==
    /\ running[n]
    /\ pc[n][r] \in Waiting
    /\ GetWorks
    /\ ~IsNotFound(store[r])
    /\ ~MarkedForDeletion(store[r])
    /\ ~NoPhaseRule(n, r, store[r])
    /\ pc' = [pc EXCEPT ![n][r] = "got"]
    /\ snap' = [snap EXCEPT ![n][r] = Copy(store[r])]
    /\ UNCHANGED <<store, now, running, crashes, registry, sess, exposed,
                   cleanups>>
    /\ UNCHANGED <<rebound, delivered, enqueued, swept>>
    /\ UNCHANGED <<mgrVars, retryVars, pvrVars>>

\* Reconcile of a record that is being deleted while it is not in a final
\* state: spec.cancel is set under optimistic retry (the cancel mechanism
\* releases what the record holds), and the phase dispatch goes on with the
\* copy that was read
ReconcileDeleting(n, r) ==
    /\ running[n]
    /\ pc[n][r] \in Waiting
    /\ GetWorks
    /\ MarkedForDeletion(store[r])
    /\ store' = [store EXCEPT ![r] = UpdateWithRetry(r, [cancel |-> TRUE])]
    /\ IF NoPhaseRule(n, r, store[r])
       THEN /\ Return(n, r)
            /\ WroteAndLeft(n, r)
       ELSE /\ pc' = [pc EXCEPT ![n][r] = "got"]
            /\ snap' = [Written(r) EXCEPT ![n][r] =
                  [Copy(store[r]) EXCEPT !.stale = TRUE]]
    /\ UNCHANGED <<now, running, crashes, registry, sess, exposed, cleanups>>
    /\ UNCHANGED <<rebound, delivered, enqueued, swept>>
    /\ UNCHANGED <<mgrVars, retryVars, pvrVars>>

\* rules 1 and 8 and the other rules' guards: Reconcile gets the record (or
\* finds none) and returns
ReconcileNoop(n, r) ==
    /\ running[n]
    /\ pc[n][r] \in Waiting
    /\ GetWorks
    /\ NothingToDo(n, r, store[r])
    /\ Return(n, r)
    /\ UNCHANGED <<store, now, running, crashes, snap, registry, sess, exposed,
                   cleanups>>
    /\ UNCHANGED <<rebound, delivered, enqueued, swept>>
    /\ UNCHANGED <<mgrVars, retryVars, pvrVars>>

\* rule 2 in a final state: the slot, if this node still holds one, is
\* released, the exposer cleaned up and the finalizer removed with a merge
\* patch: the record is gone
ReconcileFinalizer(n, r) ==
    /\ running[n]
    /\ pc[n][r] = "got"
    /\ snap[n][r].phase \in Terminal
    /\ store' = [store EXCEPT ![r] = UpdateWithRetry(r, [finalizer |-> FALSE])]
    /\ registry' = [registry EXCEPT ![n] = RemoveAsyncBR(@, r)]
    /\ sess' = [sess EXCEPT ![r] = IF GetAsyncBR(registry[n], r) THEN "none" ELSE @]
    /\ CleanUp(r)
    /\ exposed' = [exposed EXCEPT ![r] = NoNode]
    /\ WroteAndLeft(n, r)
    /\ Return(n, r)
    /\ UNCHANGED <<now, running, crashes>>
    /\ UNCHANGED <<rebound, delivered, enqueued, swept>>
    /\ UNCHANGED <<mgrVars, retryVars, pvrVars>>

\* an Accept that skips the exposing and writes Prepared
AcceptedAsPrepared(n, rec) ==
    [rec EXCEPT !.phase = "Prepared", !.node = n, !.start = now,
                !.finalizer = TRUE]

\* the record Accept writes: phase, node, startTimestamp (and the finalizer)
Accepted(n, rec) ==
    [rec EXCEPT !.phase = "Accepted", !.node = n, !.start = now,
                !.finalizer = TRUE]

\* no exposer for the record's snapshot type: errorOut fails the record and
\* returns the error; there is no exposer whose CleanUp could be called
ReconcileNoExposer(n, r) ==
    /\ running[n]
    /\ pc[n][r] = "got"
    /\ ~HasExposer(store[r].snapshotType)
    /\ store' = [store EXCEPT ![r] =
          UpdateWithRetry(r, Terminate("Failed", "no exposer"))]
    /\ WroteAndLeft(n, r)
    /\ ReturnError(n, r)
    /\ UNCHANGED <<now, running, crashes, registry, sess, exposed, cleanups>>
    /\ UNCHANGED <<rebound, delivered, enqueued, swept>>
    /\ UNCHANGED <<mgrVars, retryVars, pvrVars>>

\* rule 3, acceptDataUpload: one Update of the copy that was read. A conflict
\* is (succeeded = false, no error) and Reconcile returns ctrl.Result{}; any
\* other error of the Update is returned
acceptDataUpload(n, r) ==
    /\ running[n]
    /\ pc[n][r] = "got"
    /\ snap[n][r].phase = "New"
    /\ HasExposer(store[r].snapshotType)
    /\ \/ /\ ~UpdateConflicts(snap[n][r])
          /\ store' = [store EXCEPT ![r] = Accepted(n, store[r])]
          /\ pc' = [pc EXCEPT ![n][r] = "accepted"]
          /\ snap' = [Written(r) EXCEPT ![n][r] = Copy(store'[r])]
       \/ /\ UpdateConflicts(snap[n][r])
          /\ Return(n, r)
          /\ Left(n, r)
          /\ UNCHANGED store
       \/ /\ ReturnError(n, r)
          /\ Left(n, r)
          /\ UNCHANGED store
    /\ UNCHANGED <<now, running, crashes, registry, sess, exposed, cleanups>>
    /\ UNCHANGED <<rebound, delivered, enqueued, swept>>
    /\ UNCHANGED <<mgrVars, retryVars, pvrVars>>

\* Expose: the hosting pod is requested for this node, or the exposer fails
\* (or there is none for the snapshot type) and the record is failed and the
\* error returned
Expose(n, r) ==
    \/ /\ exposed' = [exposed EXCEPT ![r] = n]
       /\ Left(n, r)
       /\ Return(n, r)
       /\ UNCHANGED <<store, cleanups>>
    \/ /\ FailAndCleanUp(r, "expose")
       /\ WroteAndLeft(n, r)
       /\ ReturnError(n, r)

\* the reconcile that accepted the record goes on to expose it
ReconcileExpose(n, r) ==
    /\ running[n]
    /\ pc[n][r] = "accepted"
    /\ Expose(n, r)
    /\ UNCHANGED <<now, running, crashes, registry, sess>>
    /\ UNCHANGED <<rebound, delivered, enqueued, swept>>
    /\ UNCHANGED <<mgrVars, retryVars, pvrVars>>

\* rule 4, onPrepareTimeout: Update to Failed, then CleanUp; a conflict or any
\* other error of the Update is logged and absorbed, and Reconcile returns
\* ctrl.Result{} and no error either way
onPrepareTimeout(n, r) ==
    /\ running[n]
    /\ pc[n][r] = "got"
    /\ snap[n][r].phase = "Accepted"
    /\ snap[n][r].due
    /\ \/ /\ ~UpdateConflicts(snap[n][r])
          /\ store' = [store EXCEPT ![r] = PrepareTimedOut(store[r])]
          /\ CleanUp(r)
          /\ exposed' = [exposed EXCEPT ![r] = NoNode]
          /\ WroteAndLeft(n, r)
       \/ /\ UpdateConflicts(snap[n][r])
          /\ Left(n, r)
          /\ UNCHANGED <<store, cleanups, exposed>>
       \/ /\ Left(n, r)
          /\ UNCHANGED <<store, cleanups, exposed>>
    /\ Return(n, r)
    /\ UNCHANGED <<now, running, crashes, registry, sess>>
    /\ UNCHANGED <<rebound, delivered, enqueued, swept>>
    /\ UNCHANGED <<mgrVars, retryVars, pvrVars>>

\* rule 5: Accepted on the owning node: Expose if not yet called, else poll
\* GetExposed: error, nil (not ready: requeue) or ready
ReconcileAccepted(n, r) ==
    /\ running[n]
    /\ pc[n][r] = "got"
    /\ snap[n][r].phase = "Accepted"
    /\ ~snap[n][r].due
    /\ Owns(n, snap[n][r])
    /\ \/ /\ exposed[r] = NoNode
          /\ Expose(n, r)
       \/ /\ exposed[r] # NoNode
          /\ FailAndCleanUp(r, "get exposed")
          /\ WroteAndLeft(n, r)
          /\ ReturnError(n, r)
       \/ /\ exposed[r] # NoNode
          /\ Left(n, r)
          /\ RequeueAfter5s(n, r)
          /\ UNCHANGED <<store, cleanups, exposed>>
       \/ /\ exposed[r] = n
          /\ store' = [store EXCEPT ![r] =
                UpdateWithRetry(r, [phase |-> "Prepared"])]
          /\ WroteAndLeft(n, r)
          /\ Return(n, r)
          /\ UNCHANGED <<cleanups, exposed>>
    /\ UNCHANGED <<now, running, crashes, registry, sess>>
    /\ UNCHANGED <<rebound, delivered, enqueued, swept>>
    /\ UNCHANGED <<mgrVars, retryVars, pvrVars>>

\* a refusal that is answered with ctrl.Result{} instead of the requeue
RefusedAndDropped(n, r) == Return(n, r)

\* the manager refused the slot: nothing is changed and the key is requeued
\* after 5 s
RefusedAndRequeued(n, r) == RequeueAfter5s(n, r)

\* rule 6: Prepared: GetExposed for this node (error, nil or the hosting
\* pod), then ask the manager for a slot
ReconcilePrepared(n, r) ==
    /\ running[n]
    /\ pc[n][r] = "got"
    /\ snap[n][r].phase = "Prepared"
    /\ \/ /\ Scheduled(n, r)
          /\ FailAndCleanUp(r, "get exposed")
          /\ WroteAndLeft(n, r)
          /\ ReturnError(n, r)
          /\ UNCHANGED registry
       \/ /\ ~Scheduled(n, r)
          /\ Left(n, r)
          /\ Return(n, r)
          /\ UNCHANGED <<store, cleanups, exposed, registry>>
       \/ /\ Scheduled(n, r)
          /\ Refused(registry[n], r, ConcurrentLimit)
          /\ Left(n, r)
          /\ RefusedAndRequeued(n, r)
          /\ UNCHANGED <<store, cleanups, exposed, registry>>
       \/ /\ Scheduled(n, r)
          /\ ~Refused(registry[n], r, ConcurrentLimit)
          /\ registry' = [registry EXCEPT ![n] = CreateFileSystemBR(@, r, ConcurrentLimit)]
          /\ pc' = [pc EXCEPT ![n][r] = "slot"]
          /\ UNCHANGED <<store, cleanups, exposed, snap>>
    /\ UNCHANGED <<now, running, crashes, sess>>
    /\ UNCHANGED <<rebound, delivered, enqueued, swept>>
    /\ UNCHANGED <<mgrVars, retryVars, pvrVars>>

\* rule 6, continued: CAS-patch to InProgress and start the session; when the
\* patch fails the slot is given back and the error returned
ReconcileStart(n, r) ==
    /\ running[n]
    /\ pc[n][r] = "slot"
    /\ \/ /\ ~UpdateConflicts(snap[n][r])
          /\ store' = [store EXCEPT ![r].phase = "InProgress"]
          /\ sess' = [sess EXCEPT ![r] = "running"]
          /\ WroteAndLeft(n, r)
          /\ Return(n, r)
          /\ UNCHANGED registry
       \/ /\ UpdateConflicts(snap[n][r])
          /\ registry' = [registry EXCEPT ![n] = RemoveAsyncBR(@, r)]
          /\ Left(n, r)
          /\ ReturnError(n, r)
          /\ UNCHANGED <<store, sess>>
    /\ UNCHANGED <<now, running, crashes, exposed, cleanups>>
    /\ UNCHANGED <<rebound, delivered, enqueued, swept>>
    /\ UNCHANGED <<mgrVars, retryVars, pvrVars>>

\* a cancel that patches the phase and never reaches the session
CancelNotForwarded(state) == state

\* session.Cancel(): a running session is asked to wind down
Cancel(state) == IF state = "running" THEN "cancelReq" ELSE state

\* rule 7: InProgress with spec.cancel: the phase is patched to Canceling and
\* then Cancel() called on the session this node's manager holds; without a
\* session here there is nothing to do; when the patch fails (the record is
\* gone) the error is returned and Cancel() not called
ReconcileCancel(n, r) ==
    /\ running[n]
    /\ pc[n][r] = "got"
    /\ snap[n][r].phase = "InProgress"
    /\ snap[n][r].cancel
    /\ \/ /\ GetAsyncBR(registry[n], r)
          /\ ~Gone(store[r])
          /\ store' = [store EXCEPT ![r] =
                UpdateWithRetry(r, [phase |-> "Canceling"])]
          /\ sess' = [sess EXCEPT ![r] = Cancel(@)]
          /\ WroteAndLeft(n, r)
          /\ Return(n, r)
       \/ /\ GetAsyncBR(registry[n], r)
          /\ Gone(store[r])
          /\ Left(n, r)
          /\ ReturnError(n, r)
          /\ UNCHANGED <<store, sess>>
       \/ /\ ~GetAsyncBR(registry[n], r)
          /\ Left(n, r)
          /\ Return(n, r)
          /\ UNCHANGED <<store, sess>>
    /\ UNCHANGED <<now, running, crashes, registry, exposed, cleanups>>
    /\ UNCHANGED <<rebound, delivered, enqueued, swept>>
    /\ UNCHANGED <<mgrVars, retryVars, pvrVars>>

(* -------------------------- session callbacks ------------------------- *)

\* a session that falls silent once Cancel() was called on it
ReportingUntilAsked(n, r) ==
    /\ running[n]
    /\ GetAsyncBR(registry[n], r)
    /\ sess[r] = "running"

\* a session held by node n's manager that is running (Cancel() asked or
\* not) may report
Reporting(n, r) ==
    /\ running[n]
    /\ GetAsyncBR(registry[n], r)
    /\ sess[r] \in {"running", "cancelReq"}

\* a handler that goes on to Close() without having patched the record
OnTerminalUnpatched(r, phase, msg) ==
    /\ sess' = [sess EXCEPT ![r] = "patched"]
    /\ UNCHANGED <<store, snap, now, running, crashes, pc, registry, exposed,
                   cleanups>>
    /\ UNCHANGED <<mgrVars, retryVars, pvrVars>>

\* the terminal handlers, step (a): the phase and completionTimestamp are
\* written under optimistic retry
OnTerminal(r, phase, msg) ==
    /\ GetWorks
    /\ store' = [store EXCEPT ![r] =
          UpdateWithRetry(r, Terminate(phase, msg))]
    /\ sess' = [sess EXCEPT ![r] = "patched"]
    /\ snap' = Written(r)
    /\ UNCHANGED <<now, running, crashes, pc, registry, exposed, cleanups>>
    /\ UNCHANGED <<mgrVars, retryVars, pvrVars>>

OnDataUploadCompleted(n, r) ==
    /\ Reporting(n, r)
    /\ OnTerminal(r, "Completed", "")
    /\ UNCHANGED <<rebound, delivered, enqueued, swept>>

OnDataUploadFailed(n, r) ==
    /\ Reporting(n, r)
    /\ OnTerminal(r, "Failed", "data path failed")
    /\ UNCHANGED <<rebound, delivered, enqueued, swept>>

\* OnCancelled is what a session answers Cancel() with
OnDataUploadCancelled(n, r) ==
    /\ Reporting(n, r)
    /\ sess[r] = "cancelReq"
    /\ OnTerminal(r, "Canceled", "")
    /\ UNCHANGED <<rebound, delivered, enqueued, swept>>

\* a completion handler that does not look at what RebindVolume returned
AfterRebindIgnored(outcome) == [phase |-> "Completed", message |-> ""]

\* what the download's completion handler makes of the record, by what
\* RebindVolume returned: a failed rebind is a failure
AfterRebind(outcome) ==
    IF outcome = "ok"
    THEN [phase |-> "Completed", message |-> ""]
    ELSE [phase |-> "Failed", message |-> "rebind volume"]

\* OnDataDownloadCompleted: the restored volume is rebound to the target PVC,
\* or RebindVolume returns an error; then step (a) with the phase that follows
OnDataDownloadCompleted(n, r) ==
    /\ Reporting(n, r)
    /\ \E outcome \in {"ok", "failed"} :
          /\ rebound' = [rebound EXCEPT ![r] = outcome]
          /\ OnTerminal(r, AfterRebind(outcome).phase, AfterRebind(outcome).message)
    /\ UNCHANGED <<delivered, enqueued, swept>>

\* the terminal handlers, steps (b) - (d): Close(), the slot, CleanUp
closeDataPath(n, r) ==
    /\ running[n]
    /\ GetAsyncBR(registry[n], r)
    /\ sess[r] = "patched"
    /\ sess' = [sess EXCEPT ![r] = "none"]
    /\ registry' = [registry EXCEPT ![n] = RemoveAsyncBR(@, r)]
    /\ CleanUp(r)
    /\ exposed' = [exposed EXCEPT ![r] = NoNode]
    /\ UNCHANGED <<store, now, running, crashes, pc, snap>>
    /\ UNCHANGED <<rebound, delivered, enqueued, swept>>
    /\ UNCHANGED <<mgrVars, retryVars, pvrVars>>

\* a handler that patches bytesDone and forgets totalBytes
ProgressBytesOnly(total, done) == [bytesDone |-> done]

\* what the progress handler sets in the record: status.progress
ProgressPatch(total, done) == Progress(total, done)

\* the session reports progress with bytesDone not below its last report
Reports(n, r, total, done) ==
    /\ Reporting(n, r)
    /\ done <= total
    /\ done >= delivered[r].bytesDone
    /\ delivered' = [delivered EXCEPT ![r] = Progress(total, done)]

\* OnDataUploadProgress: the record is read and status.progress patched, and
\* nothing else
OnDataUploadProgress(n, r, total, done) ==
    /\ Reports(n, r, total, done)
    /\ GetWorks
    /\ store' = [store EXCEPT ![r] =
          UpdateWithRetry(r, ProgressPatch(total, done))]
    /\ snap' = Written(r)
    /\ UNCHANGED <<now, running, crashes, pc, registry, sess, exposed, cleanups>>
    /\ UNCHANGED <<rebound, enqueued, swept>>
    /\ UNCHANGED <<mgrVars, retryVars, pvrVars>>

\* OnDataUploadProgress when its Get or its Patch of the record fails: the
\* error is logged and the report is lost
OnDataUploadProgressLost(n, r, total, done) ==
    /\ Reports(n, r, total, done)
    /\ UNCHANGED <<store, snap, now, running, crashes, pc, registry, sess,
                   exposed, cleanups>>
    /\ UNCHANGED <<rebound, enqueued, swept>>
    /\ UNCHANGED <<mgrVars, retryVars, pvrVars>>

(* ----------------------------- pod events ----------------------------- *)

\* a mapping that enqueues the labelled request whatever its phase
findDataUploadForPodAnyPhase(label) ==
    IF label = NoLabel \/ label \notin Names THEN <<>>
    ELSE IF Gone(store[label]) THEN <<>>
    ELSE <<[namespace |-> DefaultNamespace, name |-> label]>>

\* findDataUploadForPod / findSnapshotRestoreForPod: the requests to enqueue
\* for an event of a pod with this label
findDataUploadForPod(label) ==
    IF label = NoLabel THEN <<>>
    ELSE IF label \notin Names THEN <<>>
    ELSE IF Gone(store[label]) THEN <<>>
    ELSE IF store[label].phase # "Accepted" THEN <<>>
    ELSE <<[namespace |-> DefaultNamespace, name |-> label]>>

\* the watch delivers an event of a pod and the mapping is applied to it
PodEvent(label) ==
    /\ enqueued' = [label |-> label, requests |-> findDataUploadForPod(label)]
    /\ UNCHANGED <<store, now, running, crashes, pc, snap, registry, sess,
                   exposed, cleanups, rebound, delivered, swept>>
    /\ UNCHANGED <<mgrVars, retryVars, pvrVars>>

(* --------------------------- the environment -------------------------- *)

Tick ==
    /\ now < MaxTime
    /\ now' = now + 1
    /\ UNCHANGED <<store, running, crashes, pc, snap, registry, sess, exposed,
                   cleanups>>
    /\ UNCHANGED <<rebound, delivered, enqueued, swept>>
    /\ UNCHANGED <<mgrVars, retryVars, pvrVars>>

\* the producer sets spec.cancel
SetCancel(r) ==
    /\ ~Gone(store[r])
    /\ ~store[r].cancel
    /\ store' = [store EXCEPT ![r].cancel = TRUE]
    /\ snap' = Written(r)
    /\ UNCHANGED <<now, running, crashes, pc, registry, sess, exposed, cleanups>>
    /\ UNCHANGED <<rebound, delivered, enqueued, swept>>
    /\ UNCHANGED <<mgrVars, retryVars, pvrVars>>

\* another data mover works on a record that names it: it moves the phase and
\* may run on the same nodes
ForeignMover(r) ==
    /\ ~Gone(store[r])
    /\ ~IsBuiltInUploader(store[r].dataMover)
    /\ \E ph \in {"Accepted", "Prepared", "InProgress", "Completed"}, n \in Nodes :
          /\ store[r].phase # ph
          /\ store' = [store EXCEPT ![r].phase = ph, ![r].node = n,
                                    ![r].start = now]
    /\ snap' = Written(r)
    /\ UNCHANGED <<now, running, crashes, pc, registry, sess, exposed, cleanups>>
    /\ UNCHANGED <<rebound, delivered, enqueued, swept>>
    /\ UNCHANGED <<mgrVars, retryVars, pvrVars>>

\* the producer deletes the record: deletionTimestamp is set, and a record
\* without the finalizer disappears at once
Delete(r) ==
    /\ ~store[r].deleting
    /\ store' = [store EXCEPT ![r].deleting = TRUE]
    /\ snap' = Written(r)
    /\ UNCHANGED <<now, running, crashes, pc, registry, sess, exposed, cleanups>>
    /\ UNCHANGED <<rebound, delivered, enqueued, swept>>
    /\ UNCHANGED <<mgrVars, retryVars, pvrVars>>

\* the node-agent process dies: its reconciles, registry and sessions go
Crash(n) ==
    /\ running[n]
    /\ crashes < MaxCrashes
    /\ crashes' = crashes + 1
    /\ running' = [running EXCEPT ![n] = FALSE]
    /\ pc' = [pc EXCEPT ![n] = [r \in Names |-> "idle"]]
    /\ snap' = [snap EXCEPT ![n] = [r \in Names |-> NoSnap]]
    /\ sess' = [r \in Names |-> IF r \in registry[n] THEN "none" ELSE sess[r]]
    /\ registry' = [registry EXCEPT ![n] = {}]
    /\ swept' = [swept EXCEPT ![n] = "no"]
    /\ UNCHANGED <<store, now, exposed, cleanups>>
    /\ UNCHANGED <<rebound, delivered, enqueued>>
    /\ UNCHANGED <<mgrVars, retryVars, pvrVars>>

\* a sweeper that also takes up the records still Prepared on this node
ResumableOrPrepared(n) ==
    {r \in Names : /\ ~Gone(store[r])
                   /\ store[r].node = n
                   /\ store[r].phase \in {"InProgress", "Prepared"}}

\* the records the sweeper looks at: InProgress and assigned to this node
Resumable(n) ==
    {r \in Names : /\ ~Gone(store[r])
                   /\ store[r].node = n
                   /\ store[r].phase = "InProgress"}

\* the hosting pod of a request goes with the node-agent's node while the
\* node-agent is down
HostingPodLost(r) ==
    /\ exposed[r] # NoNode
    /\ ~running[exposed[r]]
    /\ exposed' = [exposed EXCEPT ![r] = NoNode]
    /\ UNCHANGED <<store, now, running, crashes, pc, snap, registry, sess,
                   cleanups>>
    /\ UNCHANGED <<rebound, delivered, enqueued, swept>>
    /\ UNCHANGED <<mgrVars, retryVars, pvrVars>>

\* a sweeper that takes every hosting pod for usable without looking
HostingPodAssumed(n, r) == TRUE

\* GetExposed can find the hosting pod of the record on this node
HostingPodThere(n, r) == exposed[r] = n

\* AttemptDataUploadResume at startup: a record whose hosting pod is there
\* and usable gets a slot again, within the ceiling; the others are failed
AttemptDataUploadResume(n) ==
    /\ ~running[n]
    /\ running' = [running EXCEPT ![n] = TRUE]
    /\ swept' = [swept EXCEPT ![n] = "ok"]
    /\ \E resumed \in SUBSET {r \in Resumable(n) : HostingPodThere(n, r)} :
          /\ Cardinality(resumed) <= ConcurrentLimit
          /\ registry' = [registry EXCEPT ![n] = resumed]
          /\ sess' = [r \in Names |-> IF r \in resumed THEN "running" ELSE sess[r]]
          /\ store' = [r \in Names |->
                IF r \in Resumable(n) \ resumed
                THEN UpdateWithRetry(r, Terminate("Failed", "node restarted"))
                ELSE store[r]]
          /\ snap' = [m \in Nodes |-> [x \in Names |->
                IF x \in Resumable(n) \ resumed THEN Written(x)[m][x] ELSE snap[m][x]]]
    /\ UNCHANGED <<now, crashes, pc, exposed, cleanups>>
    /\ UNCHANGED <<rebound, delivered, enqueued>>
    /\ UNCHANGED <<mgrVars, retryVars, pvrVars>>

\* AttemptDataUploadResume when listing the records fails: the error is
\* returned to the caller, nothing is resumed or failed, and the node-agent
\* does not come up
AttemptDataUploadResumeError(n) ==
    /\ ~running[n]
    /\ swept[n] # "error"
    /\ swept' = [swept EXCEPT ![n] = "error"]
    /\ UNCHANGED <<store, now, running, crashes, pc, snap, registry, sess,
                   exposed, cleanups>>
    /\ UNCHANGED <<rebound, delivered, enqueued>>
    /\ UNCHANGED <<mgrVars, retryVars, pvrVars>>


(* ------------------ the DataPathManager under concurrency ------------- *)

\* a goroutine calls CreateFileSystemBR(name) ("create") or
\* RemoveAsyncBR(name) ("remove") and waits for trackerLock
Call(c, op, name) ==
    /\ call[c] = NoCall
    /\ call' = [call EXCEPT ![c] =
          [op |-> op, name |-> name, at |-> "lock", accepted |-> FALSE]]
    /\ UNCHANGED <<tracker, trackerLock, open>>
    /\ UNCHANGED <<agentVars, retryVars, pvrVars>>

\* a lock that is granted to whoever asks
LockIgnored == TRUE

\* trackerLock is granted when nobody is inside the critical section
LockFree == trackerLock = NoCaller

Lock(c) ==
    /\ call[c].at = "lock"
    /\ LockFree
    /\ trackerLock' = c
    /\ call' = [call EXCEPT ![c].at = "locked"]
    /\ UNCHANGED <<tracker, open>>
    /\ UNCHANGED <<agentVars, retryVars, pvrVars>>

\* Create, inside the critical section: the ceiling and presence check; a
\* refused call unlocks and returns not-accepted
CreateCheck(c) ==
    /\ call[c].op = "create"
    /\ call[c].at = "locked"
    /\ IF Refused(tracker, call[c].name, MgrLimit)
       THEN /\ call' = [call EXCEPT ![c].at = "done", ![c].accepted = FALSE]
            /\ trackerLock' = NoCaller
       ELSE /\ call' = [call EXCEPT ![c].at = "insert"]
            /\ UNCHANGED trackerLock
    /\ UNCHANGED <<tracker, open>>
    /\ UNCHANGED <<agentVars, retryVars, pvrVars>>

\* Create, still inside: the factory instantiates the session, the entry is
\* registered, the call unlocks and returns accepted
CreateInsert(c) ==
    /\ call[c].at = "insert"
    /\ tracker' = tracker \cup {call[c].name}
    /\ open' = [open EXCEPT ![call[c].name] = @ + 1]
    /\ call' = [call EXCEPT ![c].at = "done", ![c].accepted = TRUE]
    /\ trackerLock' = NoCaller
    /\ UNCHANGED <<agentVars, retryVars, pvrVars>>

\* Remove, inside the critical section: the session, if there is one, is
\* closed and the entry deleted
Remove(c) ==
    /\ call[c].op = "remove"
    /\ call[c].at = "locked"
    /\ open' = IF GetAsyncBR(tracker, call[c].name)
               THEN [open EXCEPT ![call[c].name] = @ - 1]
               ELSE open
    /\ tracker' = RemoveAsyncBR(tracker, call[c].name)
    /\ call' = [call EXCEPT ![c].at = "done"]
    /\ trackerLock' = NoCaller
    /\ UNCHANGED <<agentVars, retryVars, pvrVars>>

\* the caller has its answer and may call again
Returned(c) ==
    /\ call[c].at = "done"
    /\ call' = [call EXCEPT ![c] = NoCall]
    /\ UNCHANGED <<tracker, trackerLock, open>>
    /\ UNCHANGED <<agentVars, retryVars, pvrVars>>

(* --------------------------- UpdateWithRetry -------------------------- *)

\* an Update that takes any copy, whatever has been written since it was read
NeverConflicts(copy, stored) == FALSE

\* the Update of a copy is refused with a conflict when the stored record has
\* another resourceVersion
Conflicts(copy, stored) == copy.version # stored.version

\* a backoff that takes nothing from the time left until the deadline
BackoffForFree(left) == left

\* a backoff uses up time until the caller's context deadline
AfterBackoff(left) == left - 1

\* the caller-supplied mutator of the tests: Spec.Cancel = true
updateFunc(copy) == [copy EXCEPT !.cancel = TRUE]

\* UpdateDataUploadWithRetry is called with a context that has a deadline,
\* for the first time or again after it returned an error
RetryCall ==
    /\ \/ retry.at = "idle"
       \/ retry.at = "returned" /\ retry.result = "error"
    /\ retry' = [NotCalled EXCEPT !.at = "get"]
    /\ UNCHANGED <<obj, faults, writes>>
    /\ UNCHANGED <<agentVars, mgrVars, pvrVars>>

\* an attempt begins: Get of the record by key; an error is returned as it is
RetryGet ==
    /\ retry.at = "get"
    /\ retry' = IF "get" \in faults
                THEN [retry EXCEPT !.at = "returned", !.result = "error"]
                ELSE [retry EXCEPT !.at = "update", !.copy = obj]
    /\ UNCHANGED <<obj, faults, writes>>
    /\ UNCHANGED <<agentVars, mgrVars, pvrVars>>

\* the mutator is applied to the copy and the copy is sent as an Update: an
\* error that is no conflict is returned, a conflict leads to a retry, and
\* otherwise the copy is stored
RetryUpdate ==
    /\ retry.at = "update"
    /\ IF "update" \in faults
       THEN /\ retry' = [retry EXCEPT !.at = "returned", !.result = "error"]
            /\ obj' = obj
       ELSE IF "conflict" \in faults \/ Conflicts(retry.copy, obj)
       THEN /\ retry' = [retry EXCEPT !.at = "wait"]
            /\ obj' = obj
       ELSE /\ retry' = [retry EXCEPT !.at = "returned", !.result = "ok"]
            /\ obj' = [updateFunc(retry.copy) EXCEPT !.version = obj.version + 1]
    /\ UNCHANGED <<faults, writes>>
    /\ UNCHANGED <<agentVars, mgrVars, pvrVars>>

\* after a conflict: back off and read again, unless the context's deadline
\* has come, which is returned as an error
RetryBackoff ==
    /\ retry.at = "wait"
    /\ retry' = IF retry.left > 0
                THEN [retry EXCEPT !.at = "get", !.left = AfterBackoff(@)]
                ELSE [retry EXCEPT !.at = "returned", !.result = "error"]
    /\ UNCHANGED <<obj, faults, writes>>
    /\ UNCHANGED <<agentVars, mgrVars, pvrVars>>

\* another writer updates the record: a field of its own, and the
\* resourceVersion moves on
OtherWriter ==
    /\ writes < MaxWrites
    /\ writes' = writes + 1
    /\ obj' = [obj EXCEPT !.annotation = @ + 1, !.version = @ + 1]
    /\ UNCHANGED <<retry, faults>>
    /\ UNCHANGED <<agentVars, mgrVars, pvrVars>>

(* ---------------------------- specification --------------------------- *)

\* the reconcilers of the nodes NS and the sessions of the requests RS
NextOf(NS, RS) ==
    \/ \E n \in NS, r \in RS :
          \/ ReconcileGet(n, r)
          \/ ReconcileNoop(n, r)
          \/ acceptDataUpload(n, r)
          \/ ReconcileExpose(n, r)
          \/ onPrepareTimeout(n, r)
          \/ ReconcileAccepted(n, r)
          \/ ReconcilePrepared(n, r)
          \/ ReconcileStart(n, r)
          \/ ReconcileCancel(n, r)
          \/ OnDataUploadCompleted(n, r)
          \/ OnDataUploadFailed(n, r)
          \/ OnDataUploadCancelled(n, r)
          \/ closeDataPath(n, r)
          \/ \E done \in 1..MaxBytes : OnDataUploadProgress(n, r, MaxBytes, done)
    \/ \E r \in RS : SetCancel(r)
    \/ \E n \in NS : Crash(n) \/ AttemptDataUploadResume(n)
    \/ Tick

\* the producer deletes requests and the reconcilers handle the deletion
DeletionOf(NS, RS) ==
    \/ \E n \in NS, r \in RS :
          \/ ReconcileDeleting(n, r)
          \/ ReconcileFinalizer(n, r)
    \/ \E r \in RS : Delete(r)

\* one request and the reconcilers of every node
Next == NextOf(Nodes, {"du1"}) \/ DeletionOf(Nodes, {"du1"})

Spec == Init /\ [][Next]_vars

\* every request and the reconciler of one node; no request is deleted
LimitNext == NextOf({"n1"}, Names)

LimitSpec == Init /\ [][LimitNext]_vars

\* what the host framework, the sessions and the node's supervisor keep
\* doing: a key with work is handed to Reconcile again (an event, the 5 s
\* requeue or the retry of an error), a Reconcile that started runs on, a
\* session that runs ends with one of its terminal callbacks and its handler
\* finishes, and a node-agent that died is started again; the producer, the
\* clock and crashes owe nothing
Fairness(NS, RS) ==
    /\ \A n \in NS, r \in RS :
          /\ WF_vars(ReconcileGet(n, r))
          /\ WF_vars(acceptDataUpload(n, r))
          /\ WF_vars(ReconcileExpose(n, r))
          /\ WF_vars(onPrepareTimeout(n, r))
          /\ WF_vars(ReconcileAccepted(n, r))
          /\ WF_vars(ReconcilePrepared(n, r))
          /\ WF_vars(ReconcileStart(n, r))
          /\ WF_vars(ReconcileCancel(n, r))
          /\ WF_vars(\/ OnDataUploadCompleted(n, r)
                     \/ OnDataUploadFailed(n, r)
                     \/ OnDataUploadCancelled(n, r))
          /\ WF_vars(closeDataPath(n, r))
    /\ \A n \in NS : WF_vars(AttemptDataUploadResume(n))

\* every request and the reconciler of one node while no prepare timeout
\* falls due: the clock stands still, and the sessions report no progress
ThrottleNext ==
    \/ \E n \in {"n1"}, r \in Names :
          \/ ReconcileGet(n, r)
          \/ ReconcileNoop(n, r)
          \/ acceptDataUpload(n, r)
          \/ ReconcileExpose(n, r)
          \/ ReconcileAccepted(n, r)
          \/ ReconcilePrepared(n, r)
          \/ ReconcileStart(n, r)
          \/ ReconcileCancel(n, r)
          \/ OnDataUploadCompleted(n, r)
          \/ OnDataUploadFailed(n, r)
          \/ OnDataUploadCancelled(n, r)
          \/ closeDataPath(n, r)
    \/ \E r \in Names : SetCancel(r)
    \/ Crash("n1")
    \/ AttemptDataUploadResume("n1")

\* the same under fair requeueing
ThrottleSpec ==
    Init /\ [][ThrottleNext]_vars /\ Fairness({"n1"}, Names)

\* a session that respects cancellation completes or fails only while
\* Cancel() has not been called on it
RespectsCancel(r) == sess[r] = "running"

CompletedUnlessAsked(n, r) ==
    /\ RespectsCancel(r)
    /\ OnDataUploadCompleted(n, r)

FailedUnlessAsked(n, r) ==
    /\ RespectsCancel(r)
    /\ OnDataUploadFailed(n, r)

\* one request and the reconciler of its node, with a session that respects
\* cancellation
CancelNext ==
    \/ \E n \in {"n1"}, r \in {"du1"} :
          \/ ReconcileGet(n, r)
          \/ ReconcileNoop(n, r)
          \/ acceptDataUpload(n, r)
          \/ ReconcileExpose(n, r)
          \/ onPrepareTimeout(n, r)
          \/ ReconcileAccepted(n, r)
          \/ ReconcilePrepared(n, r)
          \/ ReconcileStart(n, r)
          \/ ReconcileCancel(n, r)
          \/ CompletedUnlessAsked(n, r)
          \/ FailedUnlessAsked(n, r)
          \/ OnDataUploadCancelled(n, r)
          \/ closeDataPath(n, r)
          \/ \E done \in 1..MaxBytes : OnDataUploadProgress(n, r, MaxBytes, done)
    \/ SetCancel("du1")
    \/ Crash("n1")
    \/ AttemptDataUploadResume("n1")
    \/ Tick

\* the same under fair scheduling
CancelSpec ==
    Init /\ [][CancelNext]_vars /\ Fairness({"n1"}, {"du1"})

\* one request, deleted by the producer at some point, and the reconciler of
\* its node, under fair scheduling
DeleteNext == NextOf({"n1"}, {"du1"}) \/ DeletionOf({"n1"}, {"du1"})

DeleteSpec ==
    /\ Init
    /\ [][DeleteNext]_vars
    /\ Fairness({"n1"}, {"du1"})
    /\ WF_vars(ReconcileDeleting("n1", "du1"))
    /\ WF_vars(ReconcileFinalizer("n1", "du1"))

\* one DataDownload and the reconciler of its node: the completion handler
\* rebinds the restored volume
DownloadNext ==
    \/ \E n \in {"n1"}, r \in {"du1"} :
          \/ ReconcileGet(n, r)
          \/ ReconcileNoop(n, r)
          \/ acceptDataUpload(n, r)
          \/ ReconcileExpose(n, r)
          \/ onPrepareTimeout(n, r)
          \/ ReconcileAccepted(n, r)
          \/ ReconcilePrepared(n, r)
          \/ ReconcileStart(n, r)
          \/ ReconcileCancel(n, r)
          \/ OnDataDownloadCompleted(n, r)
          \/ OnDataUploadFailed(n, r)
          \/ OnDataUploadCancelled(n, r)
          \/ closeDataPath(n, r)
          \/ \E done \in 1..MaxBytes : OnDataUploadProgress(n, r, MaxBytes, done)
    \/ SetCancel("du1")
    \/ Crash("n1")
    \/ AttemptDataUploadResume("n1")
    \/ Tick

DownloadSpec == Init /\ [][DownloadNext]_vars

\* one request and the reconciler of its node while no prepare timeout falls
\* due and the node-agent stays up: the session's progress reports, of which
\* some are lost to a failing Get or Patch
ProgressNext ==
    \/ \E n \in {"n1"}, r \in {"du1"} :
          \/ ReconcileGet(n, r)
          \/ ReconcileNoop(n, r)
          \/ acceptDataUpload(n, r)
          \/ ReconcileExpose(n, r)
          \/ ReconcileAccepted(n, r)
          \/ ReconcilePrepared(n, r)
          \/ ReconcileStart(n, r)
          \/ ReconcileCancel(n, r)
          \/ OnDataUploadCompleted(n, r)
          \/ OnDataUploadFailed(n, r)
          \/ OnDataUploadCancelled(n, r)
          \/ closeDataPath(n, r)
          \/ \E total \in 1..MaxDone, done \in 0..MaxDone :
                \/ OnDataUploadProgress(n, r, total, done)
                \/ OnDataUploadProgressLost(n, r, total, done)
    \/ SetCancel("du1")

ProgressSpec == Init /\ [][ProgressNext]_vars

\* one request that may be deleted, the reconciler of its node, and the
\* events of the pods the reconcilers watch
PodNext ==
    \/ DeleteNext
    \/ \E label \in PodLabels : PodEvent(label)

PodSpec == Init /\ [][PodNext]_vars

\* one request of some data mover and some snapshot type, which may be
\* deleted, and the reconcilers of the nodes while the node agents stay up
MoverNext ==
    \/ \E n \in Nodes, r \in {"du1"} :
          \/ ReconcileGet(n, r)
          \/ ReconcileNoop(n, r)
          \/ ReconcileDeleting(n, r)
          \/ ReconcileFinalizer(n, r)
          \/ ReconcileNoExposer(n, r)
          \/ acceptDataUpload(n, r)
          \/ ReconcileExpose(n, r)
          \/ onPrepareTimeout(n, r)
          \/ ReconcileAccepted(n, r)
          \/ ReconcilePrepared(n, r)
          \/ ReconcileStart(n, r)
          \/ ReconcileCancel(n, r)
          \/ OnDataUploadCompleted(n, r)
          \/ OnDataUploadFailed(n, r)
          \/ OnDataUploadCancelled(n, r)
          \/ closeDataPath(n, r)
          \/ \E done \in 1..MaxBytes : OnDataUploadProgress(n, r, MaxBytes, done)
    \/ SetCancel("du1")
    \/ Delete("du1")
    \/ ForeignMover("du1")
    \/ Tick

MoverSpec == MoverInit /\ [][MoverNext]_vars

\* one request, the reconcilers of the nodes, and node-agent restarts during
\* which the hosting pod may be lost and the sweeper's listing may fail
SweepNext ==
    \/ NextOf(Nodes, {"du1"})
    \/ HostingPodLost("du1")
    \/ \E n \in Nodes : AttemptDataUploadResumeError(n)

SweepSpec == Init /\ [][SweepNext]_vars

(* ------------------------- the start that fails ----------------------- *)

\* a failed start that leaves the session's entry in the manager
SlotKept(reg, name) == reg

\* closeDataPath after a failed start: the session is closed and its slot
\* given back
SlotReleased(reg, name) == RemoveAsyncBR(reg, name)

\* rule 6, the start fails: the patch to InProgress went through, then the
\* in-pod volume directory cannot be resolved, or the session's Init or
\* Start returns an error; the record is failed, the exposer cleaned up, the
\* data path closed and the error returned
ReconcileStartFailed(n, r) ==
    /\ running[n]
    /\ pc[n][r] = "slot"
    /\ ~UpdateConflicts(snap[n][r])
    /\ FailAndCleanUp(r, "start data path")
    /\ registry' = [registry EXCEPT ![n] = SlotReleased(@, r)]
    /\ WroteAndLeft(n, r)
    /\ ReturnError(n, r)
    /\ UNCHANGED <<now, running, crashes, sess>>
    /\ UNCHANGED <<rebound, delivered, enqueued, swept>>
    /\ UNCHANGED <<mgrVars, retryVars, pvrVars>>

\* every request and the reconciler of one node, whose starts may fail
StartNext ==
    \/ NextOf({"n1"}, Names)
    \/ \E r \in Names : ReconcileStartFailed("n1", r)

StartSpec == Init /\ [][StartNext]_vars

(* ------------------------- PodVolumeRestore --------------------------- *)

isPVRNew(pvr) == pvr.phase = "" \/ pvr.phase = "New"

isPodOnNode(pod, node) == pod.node = node

\* the index of the restic-wait container among the pod's init containers,
\* counted from 0, or -1
getResticInitContainerIndex(pod) ==
    LET found == {i \in 1..Len(pod.initContainers) :
                     pod.initContainers[i] = InitContainer}
    IN  IF found = {} THEN -1
        ELSE (CHOOSE i \in found : \A j \in found : i <= j) - 1

isResticInitContainerRunning(pod) ==
    LET i == getResticInitContainerIndex(pod)
    IN  /\ i >= 0
        /\ Len(pod.statuses) - 1 >= i
        /\ pod.statuses[i + 1] = "running"

\* patchPodVolumeRestore: a JSON merge patch of what the mutation changed in
\* the caller's copy; the store keeps every other field as it has it, and
\* the patch carries no resourceVersion
patchPodVolumeRestore(stored, req, mutated) ==
    [f \in DOMAIN stored |-> IF mutated[f] # req[f] THEN mutated[f] ELSE stored[f]]

\* failRestore: phase Failed, the message and completionTimestamp
failRestore(stored, req, msg) ==
    patchPodVolumeRestore(stored, req,
        [req EXCEPT !.phase = "Failed", !.message = msg, !.completion = now])

\* restorePodVolume's errors that it hands to failRestore itself, returning
\* what failRestore returns
FailedInside == {"creds file", "backup storage location", "restic cmd env"}
\* restorePodVolume's errors that it returns
ReturnedErrors == {"volume path", "restic restore", "done file"}
\* what can happen once the PodVolumeRestore is InProgress
Outcomes == {"ok", "volume directory"} \cup FailedInside \cup ReturnedErrors

\* what restorePodVolume returns to processRestore: failRestore's result, nil
\* when its patch went through, for the errors it fails the restore for
restorePodVolume(outcome) ==
    IF outcome \in ReturnedErrors THEN "error" ELSE "nil"

\* PodReconciler.Reconcile: get the pod of the key, list its
\* PodVolumeRestores (the list is not used), get the PodVolumeRestore of the
\* same key; not found: nothing to do
PodReconcilerReconcile(k) ==
    /\ work["pod"].at = "idle"
    /\ work' = [work EXCEPT !["pod"] =
          IF k \in PvrNames
          THEN [at |-> "got", key |-> k, req |-> pvrs[k], result |-> "none"]
          ELSE [NoWork EXCEPT !.result = "nil"]]
    /\ UNCHANGED <<pvrs, pods, restores>>
    /\ UNCHANGED <<agentVars, mgrVars, retryVars>>

\* PodVolumeRestoreReconciler.Reconcile: get the PodVolumeRestore of the key
\* and then its pod
PodVolumeRestoreReconcilerReconcile(v) ==
    /\ work["pvr"].at = "idle"
    /\ work' = [work EXCEPT !["pvr"] =
          [at |-> "got", key |-> v, req |-> pvrs[v], result |-> "none"]]
    /\ UNCHANGED <<pvrs, pods, restores>>
    /\ UNCHANGED <<agentVars, mgrVars, retryVars>>

\* the pod processRestore is handed: the pod of the key by the PodReconciler,
\* spec.pod by the PodVolumeRestoreReconciler
PodOf(c) == IF c = "pod" THEN pods[work[c].key] ELSE pods[work[c].req.pod]

\* processRestore's three checks
ToBeProcessed(c) ==
    /\ isPVRNew(work[c].req)
    /\ isPodOnNode(PodOf(c), nodeName)
    /\ isResticInitContainerRunning(PodOf(c))

\* processRestore: not new, pod elsewhere or init container not running: skip
processRestoreSkip(c) ==
    /\ work[c].at = "got"
    /\ ~ToBeProcessed(c)
    /\ work' = [work EXCEPT ![c] = [NoWork EXCEPT !.result = "nil"]]
    /\ UNCHANGED <<pvrs, pods, restores>>
    /\ UNCHANGED <<agentVars, mgrVars, retryVars>>

\* processRestore: the restore starts: phase InProgress and startTimestamp
processRestoreStart(c) ==
    /\ work[c].at = "got"
    /\ ToBeProcessed(c)
    /\ LET v == work[c].key
           req == work[c].req
           patched == patchPodVolumeRestore(pvrs[v], req,
                         [req EXCEPT !.phase = "InProgress", !.start = now])
       IN  /\ pvrs' = [pvrs EXCEPT ![v] = patched]
           /\ work' = [work EXCEPT ![c].at = "started", ![c].req = patched]
    /\ UNCHANGED <<pods, restores>>
    /\ UNCHANGED <<agentVars, mgrVars, retryVars>>

\* processRestore: the volume directory is looked up and restorePodVolume
\* executed; an error it returns, or one of the lookup, fails the restore;
\* when it returns nil the restore goes on to be completed
processRestoreRun(c, outcome) ==
    /\ work[c].at = "started"
    /\ LET v == work[c].key
           req == work[c].req
       IN  /\ restores[v] < MaxRestores
           /\ restores' = [restores EXCEPT ![v] =
                 IF outcome = "volume directory" THEN @ ELSE @ + 1]
           /\ IF outcome = "ok"
              THEN /\ work' = [work EXCEPT ![c].at = "restored"]
                   /\ UNCHANGED pvrs
              ELSE LET failed == failRestore(pvrs[v], req, outcome)
                   IN  /\ pvrs' = [pvrs EXCEPT ![v] = failed]
                       /\ work' = [work EXCEPT ![c] =
                             IF outcome # "volume directory"
                                /\ restorePodVolume(outcome) = "nil"
                             THEN [@ EXCEPT !.at = "restored", !.req = failed]
                             ELSE [NoWork EXCEPT !.result = "nil"]]
    /\ UNCHANGED pods
    /\ UNCHANGED <<agentVars, mgrVars, retryVars>>

\* processRestore: restorePodVolume returned nil: phase Completed and
\* completionTimestamp
processRestoreCompleted(c) ==
    /\ work[c].at = "restored"
    /\ LET v == work[c].key
           req == work[c].req
       IN  pvrs' = [pvrs EXCEPT ![v] =
              patchPodVolumeRestore(@, req,
                 [req EXCEPT !.phase = "Completed", !.completion = now])]
    /\ work' = [work EXCEPT ![c] = [NoWork EXCEPT !.result = "nil"]]
    /\ UNCHANGED <<pods, restores>>
    /\ UNCHANGED <<agentVars, mgrVars, retryVars>>

\* the PodVolumeRestore of a pod: the pod is as the cluster has it, and the
\* PodVolumeRestore is created with phase "" or New
PvrInit ==
    /\ store = [r \in Names |-> NewRecord]
    /\ faults = {}
    /\ Started
    /\ \E phase \in {"", "New"} :
          pvrs = [v \in PvrNames |-> [NewPVR(v) EXCEPT !.phase = phase]]
    /\ \E pod \in PodShapes : pods = [p \in PodNames |->
                                        IF p = "p1" THEN pod ELSE RunningPod]

PvrNext ==
    \/ \E k \in PodNames : PodReconcilerReconcile(k)
    \/ \E v \in PvrNames : PodVolumeRestoreReconcilerReconcile(v)
    \/ \E c \in Controllers :
          \/ processRestoreSkip(c)
          \/ processRestoreStart(c)
          \/ \E outcome \in Outcomes : processRestoreRun(c, outcome)
          \/ processRestoreCompleted(c)
    \/ Tick

PvrSpec == PvrInit /\ [][PvrNext]_vars

(* ------------------------ the store's Get fails ----------------------- *)

\* the store client begins to answer every Get with an error that is not
\* not-found, and stops doing so
GetFails ==
    /\ "get" \notin faults
    /\ faults' = faults \cup {"get"}
    /\ UNCHANGED <<obj, retry, writes>>
    /\ UNCHANGED <<agentVars, mgrVars, pvrVars>>

GetRecovers ==
    /\ "get" \in faults
    /\ faults' = faults \ {"get"}
    /\ UNCHANGED <<obj, retry, writes>>
    /\ UNCHANGED <<agentVars, mgrVars, pvrVars>>

\* Reconcile: the Get of the record fails; the error is returned and nothing
\* else is done
ReconcileGetError(n, r) ==
    /\ running[n]
    /\ pc[n][r] \in Waiting
    /\ "get" \in faults
    /\ ReturnError(n, r)
    /\ UNCHANGED <<store, now, running, crashes, snap, registry, sess,
                   exposed, cleanups>>
    /\ UNCHANGED <<rebound, delivered, enqueued, swept>>
    /\ UNCHANGED <<mgrVars, retryVars, pvrVars>>

\* a handler that writes the failure although it could not get the record
OnTerminalFailedAnyway(r) ==
    /\ store' = [store EXCEPT ![r] =
          UpdateWithRetry(r, Terminate("Failed", "data path failed"))]
    /\ snap' = Written(r)

\* a terminal handler whose Get of the record fails: the failure is logged
\* and the record is not written
OnTerminalGetError(r) ==
    /\ UNCHANGED <<store, snap>>

\* OnDataUploadCompleted / OnDataUploadFailed / OnDataUploadCancelled while
\* the Get fails: nothing is written; the handler goes on to close the data
\* path
OnDataUploadTerminalGetError(n, r) ==
    /\ Reporting(n, r)
    /\ "get" \in faults
    /\ OnTerminalGetError(r)
    /\ sess' = [sess EXCEPT ![r] = "patched"]
    /\ UNCHANGED <<now, running, crashes, pc, registry, exposed, cleanups>>
    /\ UNCHANGED <<rebound, delivered, enqueued, swept>>
    /\ UNCHANGED <<mgrVars, retryVars, pvrVars>>

\* one request and the reconcilers of the nodes with a store whose Get fails
\* for a while
GetErrNext ==
    \/ NextOf(Nodes, {"du1"})
    \/ \E n \in Nodes :
          \/ ReconcileGetError(n, "du1")
          \/ OnDataUploadTerminalGetError(n, "du1")
    \/ GetFails
    \/ GetRecovers

GetErrSpec == Init /\ [][GetErrNext]_vars

\* a caller of UpdateWithRetry and another writer of the same record; the
\* helper's steps are taken as long as they can be
RetryNext ==
    \/ RetryCall
    \/ RetryGet
    \/ RetryUpdate
    \/ RetryBackoff
    \/ OtherWriter

RetrySpec ==
    /\ RetryInit
    /\ [][RetryNext]_vars
    /\ WF_vars(RetryGet)
    /\ WF_vars(RetryUpdate)
    /\ WF_vars(RetryBackoff)

\* one DataPathManager and the goroutines calling it
MgrNext ==
    \E c \in Callers :
       \/ \E op \in {"create", "remove"}, name \in JobNames : Call(c, op, name)
       \/ Lock(c)
       \/ CreateCheck(c)
       \/ CreateInsert(c)
       \/ Remove(c)
       \/ Returned(c)

MgrSpec == Init /\ [][MgrNext]_vars

(* ------------------------------- claims ------------------------------- *)

\* the reconcile of key r on node n takes a step other than a crash
Acts(n, r) == pc'[n][r] # pc[n][r] /\ running'[n] = running[n]

\* everything a reconcile can touch besides its own position and copy
Untouched(r) ==
    /\ store' = store
    /\ registry' = registry
    /\ sess' = sess
    /\ exposed' = exposed
    /\ cleanups' = cleanups

\* C1: of the reconcilers racing to accept a New record at most one persists
\* Accepted, and it persists its own node name; status.node never changes
\* once set; a reconciler that loses found the record changed under it
\* (accepted, cancelled or deleted) and returns without error, and a
\* reconciler whose Update fails otherwise returns the error; neither writes
\* anything or touches exposer, manager or session.
AcceptRace ==
    [][\A r \in Names :
          /\ store[r].node # NoNode => store'[r].node = store[r].node
          /\ store[r].phase # "New" => store'[r].phase # "New"
          /\ (store[r].phase = "New" /\ store'[r].phase # "New") =>
                \E n \in Nodes :
                   /\ pc[n][r] = "got"
                   /\ pc'[n][r] = "accepted"
                   /\ store'[r].phase = "Accepted"
                   /\ store'[r].node = n
          /\ \A n \in Nodes :
                (Acts(n, r) /\ pc[n][r] = "got" /\ snap[n][r].phase = "New") =>
                   \/ /\ pc'[n][r] = "accepted"
                      /\ store[r].phase = "New"
                      /\ store'[r].phase = "Accepted"
                      /\ store'[r].node = n
                   \/ /\ pc'[n][r] = "idle"
                      /\ snap[n][r].stale
                      /\ \/ store[r].phase # "New"
                         \/ store[r].cancel # snap[n][r].cancel
                         \/ store[r].deleting # snap[n][r].deleting
                      /\ Untouched(r)
                   \/ /\ pc'[n][r] = "error"
                      /\ Untouched(r)
      ]_vars

\* C1, its case: one node has accepted the record while another still holds
\* the copy of the New record it read
AcceptRaceWon ==
    \E r \in Names, n \in Nodes, m \in Nodes :
       /\ n # m
       /\ store[r].phase = "Accepted"
       /\ store[r].node = n
       /\ pc[m][r] = "got"
       /\ snap[m][r].phase = "New"
       /\ snap[m][r].stale

\* C2: once the phase of a record is Completed, Failed or Canceled, no step
\* changes it.
TerminalNeverReverts ==
    [][\A r \in Names :
          store[r].phase \in Terminal => store'[r].phase = store[r].phase]_vars

\* the rows of the state-machine table
Table ==
    {<<"New", "Accepted">>, <<"Accepted", "Failed">>, <<"Accepted", "Prepared">>,
     <<"Prepared", "InProgress">>, <<"InProgress", "Canceling">>,
     <<"InProgress", "Completed">>, <<"InProgress", "Failed">>,
     <<"InProgress", "Canceled">>, <<"Canceling", "Canceled">>}

Unlisted ==
    {<<"Prepared", "Failed">>, <<"Canceling", "Completed">>,
     <<"Canceling", "Failed">>}

InProgressOn(n) == {r \in Names : store[r].phase = "InProgress" /\ store[r].node = n}

OnlyOwnerActs ==
    [][\A r \in Names, n \in Nodes :
          (Acts(n, r) /\ store[r].node \notin {NoNode, n}) => Untouched(r)]_vars

\* the step is the prepare timeout of rule 4: the record Failed with that
\* message, the hosting pod cleaned up, nothing else
PrepareTimeoutStep(n, r) ==
    /\ snap[n][r].phase = "Accepted"
    /\ TimedOut(snap[n][r])
    /\ store[r].phase = "Accepted"
    /\ store' = [store EXCEPT ![r] = PrepareTimedOut(@)]
    /\ registry' = registry
    /\ sess' = sess

\* the step handles the deletion of the record: spec.cancel is set on a
\* record that is being deleted, or the finalizer of a record read in a final
\* state is removed and the exposer cleaned up; no manager entry and no
\* session is touched
DeletionStep(n, r) ==
    /\ store[r].deleting
    /\ registry' = registry
    /\ sess' = sess
    /\ \/ /\ MarkedForDeletion(store[r])
          /\ store' = [store EXCEPT ![r].cancel = TRUE]
          /\ exposed' = exposed
          /\ cleanups' = cleanups
       \/ /\ snap[n][r].phase \in Terminal
          /\ store' = [store EXCEPT ![r] = Mutated(@, [finalizer |-> FALSE])]

\* C5, amended: once status.node is set, the only things a reconcile on
\* another node does to the record or its hosting pod are the prepare timeout
\* and the handling of a deletion (the cancel mark, the removal of the
\* finalizer with the exposer's CleanUp); every other work-bearing action is
\* the owning node's, and a session is only ever registered in the manager of
\* the owning node.
OnlyOwnerActsButTimeout ==
    [][\A r \in Names, n \in Nodes :
          /\ (Acts(n, r) /\ store[r].node \notin {NoNode, n}) =>
                Untouched(r) \/ PrepareTimeoutStep(n, r) \/ DeletionStep(n, r)
          /\ r \in registry'[n] => store'[r].node = n]_vars

\* C5, its case: the record is Accepted by one node, its hosting pod has been
\* requested, and a reconcile on another node holds a copy that has timed out
ForeignTimeoutDue ==
    \E r \in Names, n \in Nodes :
       /\ store[r].phase = "Accepted"
       /\ store[r].node \notin {NoNode, n}
       /\ exposed[r] = store[r].node
       /\ pc[n][r] = "got"
       /\ ~snap[n][r].stale
       /\ TimedOut(snap[n][r])

\* C6: every record in a terminal phase has a completionTimestamp.
TerminalIsStamped ==
    \A r \in Names : store[r].phase \in Terminal => store[r].completion # 0

CreateFrame ==
    [][\A c \in Callers :
          (call[c].op = "create" /\ call[c].at # "done" /\ call'[c].at = "done") =>
             IF Cardinality(tracker) >= MgrLimit \/ call[c].name \in tracker
             THEN /\ ~call'[c].accepted
                  /\ tracker' = tracker
                  /\ open' = open
             ELSE /\ call'[c].accepted
                  /\ tracker' = tracker \cup {call[c].name}
                  /\ Cardinality(tracker') = Cardinality(tracker) + 1
                  /\ open' = [open EXCEPT ![call[c].name] = @ + 1]]_vars

\* C8, its case: a Create was refused for a name that is present while the
\* registry has room, and another was accepted
CreateRefusedAndAccepted ==
    \E c \in Callers, d \in Callers :
       /\ call[c].op = "create" /\ call[c].at = "done" /\ ~call[c].accepted
       /\ call[c].name \in tracker
       /\ Cardinality(tracker) < MgrLimit
       /\ call[d].op = "create" /\ call[d].at = "done" /\ call[d].accepted

\* C9: the check and the insert of Create are one critical section: at most
\* one caller is inside it, a name never has more than one session
\* instantiated and not removed, a session is open exactly for the registered
\* names, and the registry never holds more than MgrLimit entries.
CreateAtomic ==
    /\ Cardinality({c \in Callers : call[c].at \in {"locked", "insert"}}) <= 1
    /\ \A j \in JobNames : open[j] = (IF j \in tracker THEN 1 ELSE 0)
    /\ Cardinality(tracker) <= MgrLimit

\* C9, its case: a caller has passed the check and is about to insert while
\* another caller, asking for the same name, waits for the lock
CreateContended ==
    \E c \in Callers, d \in Callers :
       /\ c # d
       /\ call[c].at = "insert"
       /\ call[d].op = "create"
       /\ call[d].at = "lock"
       /\ call[d].name = call[c].name

\* C10: a Remove that returns leaves no entry for its name; if there was one
\* its session was closed and a Create of the name would now be accepted; if
\* there was none (a second Remove, or a name never registered) nothing
\* changes and no session is closed.
RemoveIdempotent ==
    [][\A c \in Callers :
          (call[c].op = "remove" /\ call[c].at # "done" /\ call'[c].at = "done") =>
             /\ call[c].name \notin tracker'
             /\ IF call[c].name \in tracker
                THEN /\ tracker' = tracker \ {call[c].name}
                     /\ open' = [open EXCEPT ![call[c].name] = @ - 1]
                     /\ open'[call[c].name] = 0
                     /\ Cardinality(tracker') < MgrLimit
                ELSE /\ tracker' = tracker
                     /\ open' = open]_vars

\* C10, its case: after a Remove of a name has returned, a Create of the same
\* name has been accepted
CreatedAgainAfterRemove ==
    \E c \in Callers, d \in Callers :
       /\ call[c].op = "remove" /\ call[c].at = "done"
       /\ call[d].op = "create" /\ call[d].at = "done" /\ call[d].accepted
       /\ call[d].name = call[c].name
       /\ call[d].name \in tracker
       /\ open[call[d].name] = 1

\* the reconcile of key r on node n, holding a copy of the record in phase
\* ph, takes its next step
Dispatches(n, r, ph) ==
    Acts(n, r) /\ pc[n][r] = "got" /\ snap[n][r].phase = ph

\* C11: when the reconcile of a Prepared record on the node its hosting pod
\* runs on finds the manager full (or the name registered), it returns
\* Requeue with RequeueAfter = 5 s and no error and changes nothing: the phase
\* stays Prepared, completionTimestamp stays unset, no session is started, no
\* slot taken and CleanUp not called; the only other outcome is the error of
\* GetExposed, met before the manager is asked. A manager with ceiling 0
\* refuses every Create.
RefusalRequeues ==
    /\ \A reg \in SUBSET Names : \A x \in Names : Refused(reg, x, 0)
    /\ [][\A n \in Nodes, r \in Names :
             (/\ Dispatches(n, r, "Prepared")
              /\ exposed[r] = n
              /\ Cardinality(registry[n]) >= ConcurrentLimit \/ r \in registry[n]) =>
                \/ /\ pc'[n][r] = "requeue"
                   /\ Untouched(r)
                   /\ store[r].phase = "Prepared" => store'[r].completion = 0
                \/ /\ pc'[n][r] = "error"
                   /\ store'[r].message = "get exposed"
                   /\ registry' = registry
                   /\ sess' = sess]_vars

\* C11, its case: the node's manager is full with another request, and the
\* reconcile of a Prepared record whose hosting pod is on the node has
\* returned the requeue
RefusedAndWaiting ==
    \E n \in Nodes, r \in Names :
       /\ pc[n][r] = "requeue"
       /\ store[r].phase = "Prepared"
       /\ exposed[r] = n
       /\ r \notin registry[n]
       /\ Cardinality(registry[n]) >= ConcurrentLimit
       /\ sess[r] = "none"
       /\ cleanups[r] = 0

TimeoutBoundary ==
    [][\A r \in Names :
          /\ (store'[r].message = "prepare timeout" /\ store[r].message # "prepare timeout") =>
                /\ store[r].phase = "Accepted"
                /\ store'[r].phase = "Failed"
                /\ now - store[r].start > preparingTimeout
          /\ store[r].phase \notin {"New", "Accepted"} =>
                store'[r].phase \notin {"New", "Accepted"}
          /\ \A n \in Nodes :
                Dispatches(n, r, "Accepted") =>
                   IF snap[n][r].due
                   THEN /\ now - snap[n][r].start > preparingTimeout
                        /\ \/ Untouched(r)
                           \/ /\ store[r].phase = "Accepted"
                              /\ store'[r].phase = "Failed"
                              /\ store'[r].message = "prepare timeout"
                   ELSE store'[r].message = "prepare timeout" =>
                           store[r].message = "prepare timeout"]_vars

\* C13, its case: a record was failed by the prepare timeout at the first
\* instant past T_prepare
TimedOutJustPast ==
    \E r \in Names :
       /\ store[r].phase = "Failed"
       /\ store[r].message = "prepare timeout"
       /\ now - store[r].start = preparingTimeout + 1

\* C14: the step that fails an Accepted record by the prepare timeout writes
\* phase Failed with the message "prepare timeout", sets completionTimestamp
\* and calls the exposer's CleanUp, and the record holds no manager slot.
PrepareTimeoutEffect ==
    [][\A r \in Names :
          (store'[r].message = "prepare timeout" /\ store[r].message # "prepare timeout") =>
             /\ store'[r].phase = "Failed"
             /\ store'[r].completion # 0
             /\ cleanups'[r] > 0
             /\ \A n \in Nodes : r \notin registry'[n]]_vars

\* C15: when the update of the prepare timeout fails, with a conflict because
\* another writer changed the record first or with any other error, the
\* record stays exactly as it is in the store, and the handler raises no
\* error either way: Reconcile returns ctrl.Result{} and nil; the record is
\* only ever failed by a timeout whose copy was current.
TimeoutFailureAbsorbed ==
    [][\A n \in Nodes, r \in Names :
          (Dispatches(n, r, "Accepted") /\ snap[n][r].due) =>
             /\ pc'[n][r] = "idle"
             /\ snap[n][r].stale => store'[r] = store[r]
             /\ store'[r] # store[r] =>
                   /\ ~snap[n][r].stale
                   /\ store[r].phase = "Accepted"
                   /\ store'[r].phase = "Failed"]_vars

\* C15, its case: the reconcile of another node is about to run the prepare
\* timeout on its copy of the Accepted record, and the owner has patched the
\* record to Prepared in between
TimeoutOvertaken ==
    \E n \in Nodes, r \in Names :
       /\ pc[n][r] = "got"
       /\ snap[n][r].phase = "Accepted"
       /\ snap[n][r].stale
       /\ store[r].phase = "Prepared"
       /\ ENABLED onPrepareTimeout(n, r)

\* C16: the Accept of a reconcile that read a New record has three outcomes:
\* the Update succeeds (only then succeeded = true), the record is written
\* Accepted with this node and the reconcile goes on to expose; the Update
\* loses with a conflict, the copy having been overtaken, and Reconcile
\* returns without error and without requeue; or the Update fails otherwise
\* and Reconcile returns the error. In the last two nothing is written and the
\* record is not Accepted by this reconciler.
AcceptOutcomes ==
    [][\A n \in Nodes, r \in Names :
          Dispatches(n, r, "New") =>
             /\ pc'[n][r] \in {"accepted", "idle", "error"}
             /\ pc'[n][r] = "accepted" <=> store'[r] # store[r]
             /\ pc'[n][r] = "accepted" =>
                   /\ ~snap[n][r].stale
                   /\ store'[r].phase = "Accepted"
                   /\ store'[r].node = n
             /\ pc'[n][r] = "idle" => snap[n][r].stale
             /\ pc'[n][r] # "accepted" => Untouched(r)]_vars

\* C16, its case: the Update of one reconciler failed with an error, which
\* Reconcile returned, and the record was then accepted by another node
AcceptFailedThenWon ==
    \E r \in Names, n \in Nodes, m \in Nodes :
       /\ n # m
       /\ pc[n][r] = "error"
       /\ pc[m][r] = "accepted"
       /\ store[r].phase = "Accepted"
       /\ store[r].node = m

\* C17: the reconcile of an InProgress record with spec.cancel on the node
\* whose manager holds the session patches the phase to Canceling, leaves
\* completionTimestamp, the slot and the hosting pod as they are, and calls
\* Cancel() on the session: the session is asked to wind down, not closed; on
\* a node without the session it changes nothing. The reconcile of an
\* InProgress record without spec.cancel (and not being deleted) changes
\* nothing.
CancelForwarded ==
    [][\A n \in Nodes, r \in Names :
          /\ Dispatches(n, r, "InProgress") =>
                /\ snap[n][r].cancel
                /\ IF r \in registry[n] /\ ~Gone(store[r])
                   THEN /\ store'[r] = [store[r] EXCEPT !.phase = "Canceling"]
                        /\ sess'[r] = (IF sess[r] = "running" THEN "cancelReq" ELSE sess[r])
                        /\ sess'[r] # "none"
                        /\ registry' = registry
                        /\ cleanups' = cleanups
                        /\ exposed' = exposed
                        /\ pc'[n][r] = "idle"
                   ELSE Untouched(r)
          /\ (/\ Acts(n, r)
              /\ pc[n][r] \in Waiting
              /\ store[r].phase = "InProgress"
              /\ ~store[r].cancel
              /\ ~store[r].deleting) =>
                Untouched(r) /\ pc'[n][r] = "idle"]_vars

\* C17, its case: the record was patched to Canceling with no
\* completionTimestamp, and the session, still registered on the node, has
\* been asked to cancel
CancelingAndAsked ==
    \E n \in Nodes, r \in Names :
       /\ store[r].phase = "Canceling"
       /\ store[r].cancel
       /\ store[r].completion = 0
       /\ store[r].node = n
       /\ r \in registry[n]
       /\ sess[r] = "cancelReq"

TerminalIgnoresCancel ==
    [][\A r \in Names :
          (store[r].phase \in Terminal /\ store'[r].cancel) =>
             /\ store'[r].phase \in {"Canceling", "Canceled"} =>
                   store'[r].phase = store[r].phase
             /\ sess'[r] = "cancelReq" => sess[r] = "cancelReq"]_vars

\* C20: the deletion of a record that is InProgress and holds the finalizer
\* leads to the session closed, the slot released, the exposer cleaned up,
\* the finalizer removed and the record gone from the store.
DeletionReleases ==
    \A r \in Names :
       (store[r].phase = "InProgress" /\ store[r].deleting /\ store[r].finalizer) ~>
          /\ Gone(store[r])
          /\ sess[r] = "none"
          /\ \A n \in Nodes : r \notin registry[n]
          /\ cleanups[r] > 0

FinalizerRemovalIsLast ==
    [][\A r \in Names :
          /\ (store[r].finalizer /\ ~store'[r].finalizer) =>
                /\ store[r].deleting
                /\ store[r].phase \in Terminal
                /\ store' = [store EXCEPT ![r].finalizer = FALSE]
                /\ Gone(store'[r])
                /\ cleanups'[r] > 0
                /\ \A n \in Nodes : r \notin registry'[n]
          /\ (Gone(store[r]) /\ running' = running) =>
                /\ store'[r] = store[r]
                /\ cleanups'[r] = cleanups[r]
                /\ sess'[r] = sess[r]
                /\ \A n \in Nodes : r \in registry'[n] <=> r \in registry[n]]_vars

\* the terminal handler of r's session on node n closes the session and
\* gives its slot back
HandlerReleases(n, r) ==
    /\ sess[r] = "patched"
    /\ r \in registry[n]
    /\ r \notin registry'[n]
    /\ running' = running
    /\ pc' = pc

CleansUp(r) == cleanups'[r] # cleanups[r] \/ cleanups[r] = MaxCleanUps

ProgressOf(rec) == Progress(rec.totalBytes, rec.bytesDone)

\* C26 as stated: every OnProgress callback is written to the record, so the
\* progress stored in a terminal record is the last one the session
\* delivered
TerminalProgressIsLastDelivered ==
    \A r \in Names :
       (~Gone(store[r]) /\ store[r].phase \in Terminal) =>
          store[r].bytesDone = delivered[r].bytesDone

\* C26: status.progress changes only in a step of the progress handler, which
\* sets it to exactly the {totalBytes, bytesDone} just delivered and changes
\* no other field of the record; a callback whose Get or Patch fails writes
\* nothing and is not repeated, so the stored progress is the one of the last
\* callback that was written, never ahead of the last delivered one, and it
\* no longer changes once the record is terminal.
ProgressLaw ==
    /\ [](\A r \in Names :
             ~Gone(store[r]) =>
                /\ store[r].bytesDone <= delivered[r].bytesDone
                /\ ProgressOf(store[r]) # NoProgress => delivered[r] # NoProgress)
    /\ [][\A r \in Names :
             (~Gone(store[r]) /\ ~Gone(store'[r])
                /\ ProgressOf(store'[r]) # ProgressOf(store[r])) =>
                /\ ProgressOf(store'[r]) = delivered'[r]
                /\ store'[r] = [store[r] EXCEPT
                                  !.totalBytes = delivered'[r].totalBytes,
                                  !.bytesDone = delivered'[r].bytesDone]
                /\ store[r].phase \in {"InProgress", "Canceling"}
                /\ \E n \in Nodes : r \in registry[n] /\ running[n]]_vars

\* C26, its case: the session delivered two reports, the first was written
\* and the second was lost, and the record is Completed with the first
ReportLostBeforeCompletion ==
    \E r \in Names :
       /\ ~Gone(store[r])
       /\ store[r].phase = "Completed"
       /\ ProgressOf(store[r]) = Progress(MaxDone, 1)
       /\ delivered[r] = Progress(MaxDone, MaxDone)


\* C27: a pod event enqueues exactly one request, the one named by the pod's
\* label (in the records' namespace), if and only if the pod carries the
\* label, a record of that name exists and its phase is Accepted; in every
\* other case it enqueues nothing; and the mapping writes nothing.
PodEventMapping ==
    [][enqueued' # enqueued =>
          LET label == enqueued'.label
              requests == enqueued'.requests
              accepted == /\ label # NoLabel
                          /\ label \in Names
                          /\ ~Gone(store[label])
                          /\ store[label].phase = "Accepted"
          IN  /\ accepted =>
                    requests = <<[namespace |-> DefaultNamespace, name |-> label]>>
              /\ ~accepted => requests = <<>>
              /\ store' = store
              /\ exposed' = exposed
              /\ registry' = registry]_vars

\* C27, its case: the hosting pod of an Accepted request had an event and the
\* request was enqueued
AcceptedEnqueued ==
    /\ enqueued.label = "du1"
    /\ Len(enqueued.requests) = 1
    /\ enqueued.requests[1].name = "du1"
    /\ store["du1"].phase = "Accepted"


\* the record was created for another data mover
NamesAnotherMover(rec) == rec.dataMover = "unknown type"

\* C28: a record whose spec.dataMover is not this mover's is never modified
\* by the reconcilers: a Reconcile of it returns ctrl.Result{} and no error
\* without reading on (no requeue, no error, no rule entered), its status
\* changes only by the other mover's and the producer's writes, which leave
\* the reconcilers where they are; no finalizer is attached, and no hosting
\* pod is asked for, no CleanUp called and no manager slot or session made
\* for it.
ForeignRecordIgnored ==
    /\ [](\A r \in Names :
             NamesAnotherMover(store[r]) =>
                /\ ~store[r].finalizer
                /\ exposed[r] = NoNode
                /\ cleanups[r] = 0
                /\ sess[r] = "none"
                /\ \A n \in Nodes : r \notin registry[n] /\ pc[n][r] = "idle")
    /\ [][\A r \in Names :
             (NamesAnotherMover(store[r]) /\ store'[r] # store[r]) =>
                /\ pc' = pc
                /\ store'[r].finalizer = store[r].finalizer
                /\ store'[r].message = store[r].message
                /\ store'[r].completion = store[r].completion]_vars

\* C28, its case: the record of another data mover is Accepted on node n1
\* and its prepare timeout has passed, and the reconcilers have left it alone
ForeignRecordTimedOut ==
    \E r \in Names :
       /\ NamesAnotherMover(store[r])
       /\ store[r].phase = "Accepted"
       /\ store[r].node = "n1"
       /\ running["n1"]
       /\ TimedOut(store[r])
       /\ pc["n1"][r] = "idle"


\* a Reconcile of r begins on node n in this step: the key was waiting and
\* is no longer, or the reconcile has got the record
ReconcileBegins(n, r) ==
    /\ running[n] /\ running'[n]
    /\ pc[n][r] \in Waiting
    /\ pc'[n][r] # pc[n][r]

\* C29: a Reconcile of a key whose record is not in the store is a no-op: it
\* returns the empty result and no error (the key is neither requeued nor
\* retried), and it writes nothing, calls no exposer and asks the manager for
\* nothing.
MissingRecordNoop ==
    [][\A n \in Nodes, r \in Names :
          (Gone(store[r]) /\ ReconcileBegins(n, r)) =>
             /\ pc'[n][r] = "idle"
             /\ store' = store
             /\ exposed' = exposed
             /\ cleanups' = cleanups
             /\ registry' = registry
             /\ sess' = sess]_vars

\* C29, its case: a record that was failed for want of an exposer, which
\* left its key to be retried, is gone, and the key is at rest on every node
KeyOfMissingRecordDropped ==
    \E r \in Names :
       /\ Gone(store[r])
       /\ store[r].phase = "Failed"
       /\ store[r].message = "no exposer"
       /\ \A n \in Nodes : pc[n][r] = "idle"


\* the record r is failed in this step with this message
FailsWith(r, msg) ==
    /\ store'[r].message = msg
    /\ store[r].message # msg

\* what every exposer error leaves: the record Failed with the error's message
\* and completionTimestamp, no manager slot for it on any node, and the
\* reconcile returned with the error and without a requeue
FailedAndReturned(r) ==
    /\ store'[r].phase = "Failed"
    /\ store'[r].completion # 0
    /\ \A n \in Nodes : r \notin registry'[n]
    /\ \E n \in Nodes : pc[n][r] \in {"got", "accepted"} /\ pc'[n][r] = "error"
    /\ \A n \in Nodes : pc'[n][r] = "requeue" => pc[n][r] = "requeue"

\* C30 as stated: every exposer error, the missing exposer included, fails the
\* record and calls the exposer's CleanUp
ExposerErrorAlwaysCleansUp ==
    [][\A r \in Names :
          (\E msg \in {"expose", "get exposed", "no exposer"} : FailsWith(r, msg)) =>
             /\ FailedAndReturned(r)
             /\ CleansUp(r)
             /\ cleanups'[r] > 0]_vars

\* C30: an error of Expose or of GetExposed moves the record to Failed with
\* the error's message and completionTimestamp, calls the exposer's CleanUp
\* and leaves no hosting pod and no slot, and the reconcile returns the error
\* without a requeue; when there is no exposer for the record's snapshot
\* type the record is failed in the same way before it is accepted, and no
\* CleanUp is called, there being no exposer to call and nothing exposed.
ExposerTerminalError ==
    /\ [](\A r \in Names :
             (store[r].dataMover = "velero"
                /\ store[r].snapshotType = "unknown type") =>
                /\ store[r].phase \in {"New", "Failed"}
                /\ ~store[r].finalizer
                /\ exposed[r] = NoNode
                /\ cleanups[r] = 0)
    /\ [][\A r \in Names :
             /\ (FailsWith(r, "expose") \/ FailsWith(r, "get exposed")) =>
                   /\ FailedAndReturned(r)
                   /\ CleansUp(r)
                   /\ cleanups'[r] > 0
                   /\ exposed'[r] = NoNode
             /\ FailsWith(r, "no exposer") =>
                   /\ FailedAndReturned(r)
                   /\ cleanups' = cleanups
                   /\ exposed'[r] = NoNode]_vars

\* C30, its case: the record's snapshot type has no exposer; the record is
\* Failed with the message and completionTimestamp, the reconcile has
\* returned the error, and CleanUp was not called
FailedWithoutExposer ==
    \E r \in Names :
       /\ store[r].snapshotType = "unknown type"
       /\ store[r].phase = "Failed"
       /\ store[r].message = "no exposer"
       /\ store[r].completion # 0
       /\ pc["n1"][r] = "error"
       /\ cleanups[r] = 0


\* the ResumeSweeper of node n runs to its end in this step
Sweeps(n) == ~running[n] /\ running'[n]

SweeperLeavesOthers ==
    /\ [](\A n \in Nodes : swept[n] = "error" => ~running[n])
    /\ [][\A n \in Nodes :
             /\ Sweeps(n) =>
                   /\ swept'[n] = "ok"
                   /\ \A r \in Names :
                         /\ store[r].phase \in {"Accepted", "Prepared"} =>
                               /\ store'[r].phase = store[r].phase
                               /\ r \notin registry'[n]
                         /\ store[r].node # n =>
                               /\ store'[r] = store[r]
                               /\ r \notin registry'[n]
                               /\ sess'[r] = sess[r]
             /\ (swept'[n] = "error" /\ swept[n] # "error") =>
                   /\ store' = store
                   /\ registry' = registry
                   /\ sess' = sess
                   /\ running' = running]_vars

\* C32, its case: the listing of node n1's sweeper failed while a record was
\* Prepared on the node: the node-agent is not up, and the record is still
\* Prepared, with its hosting pod and without a slot
PreparedLeftByFailedSweep ==
    \E r \in Names :
       /\ swept["n1"] = "error"
       /\ ~running["n1"]
       /\ store[r].node = "n1"
       /\ store[r].phase = "Prepared"
       /\ exposed[r] = "n1"
       /\ r \notin registry["n1"]


\* C33: a call of UpdateWithRetry always returns: every attempt that hits a
\* version conflict uses up time until the caller's deadline, and at the
\* deadline the call returns an error; it returns success only from an
\* attempt whose Update was stored, and an error leaves the record as the
\* others wrote it.
RetryTerminates ==
    /\ (retry.at # "idle") ~> (retry.at = "returned")
    /\ [](retry.left \in 0..MaxBackoffs)
    /\ []((retry.at = "returned" /\ retry.result = "ok") => obj.cancel)
    /\ [][/\ (retry'.at = "returned" /\ retry.at # "returned") =>
                \/ /\ retry'.result = "ok"
                   /\ retry.at = "update"
                   /\ obj'.version = obj.version + 1
                   /\ obj'.cancel
                \/ /\ retry'.result = "error"
                   /\ obj' = obj
          /\ (retry.at = "wait" /\ retry.left = 0 /\ retry' # retry) =>
                retry'.at = "returned" /\ retry'.result = "error"]_vars

\* C33, its case: the client answers no error but every attempt was
\* overtaken by another writer's update, and at the deadline the call has
\* returned an error with the mutator's change not stored
DeadlineAfterConflicts ==
    /\ faults = {}
    /\ retry.at = "returned"
    /\ retry.result = "error"
    /\ retry.left = 0
    /\ writes = MaxWrites
    /\ ~obj.cancel


\* C34: every attempt of UpdateWithRetry applies the mutator to a copy read
\* in that attempt: when the call returns success the stored record is the
\* mutator applied to the version stored just before (nothing another
\* writer wrote is lost: its field is never changed by the helper); when Get
\* or Update fails with an error that is no conflict the call returns the
\* error from its first attempt, without a backoff, and the stored record is
\* unchanged.
RetryKeepsOthersWrites ==
    /\ [](obj.annotation = writes)
    /\ []((retry.at = "returned" /\ faults \cap {"get", "update"} # {}) =>
             /\ retry.result = "error"
             /\ retry.left = MaxBackoffs
             /\ ~obj.cancel)
    /\ [][/\ (retry'.result = "ok" /\ retry.result # "ok") =>
                obj' = [updateFunc(obj) EXCEPT !.version = obj.version + 1]
          /\ retry' # retry => obj'.annotation = obj.annotation
          /\ (retry.at = "get" /\ retry'.at = "update") => retry'.copy = obj]_vars

\* C34, its case: the call was overtaken by another writer, read the record
\* again and has returned success; the stored record carries both the other
\* writer's change and the mutator's
SucceededAfterConflict ==
    /\ faults = {}
    /\ retry.at = "returned"
    /\ retry.result = "ok"
    /\ retry.left < MaxBackoffs
    /\ obj.cancel
    /\ obj.annotation > 0


\* the messages of the failures no retry can mend: an error of Expose or of
\* GetExposed, a missing exposer, a failed rebind, the prepare timeout
Unrecoverable ==
    {"expose", "get exposed", "no exposer", "rebind volume", "prepare timeout"}

\* the record has been failed by one of them
FailedForGood(rec) ==
    /\ ~Gone(rec)
    /\ rec.phase = "Failed"
    /\ rec.message \in Unrecoverable

TerminalCallbackHandled(r) ==
    /\ sess[r] \in {"running", "cancelReq"}
    /\ sess'[r] = "patched"

\* C36: while the store's Get of the record fails with an error other than
\* not-found, a Reconcile that begins returns that error and writes nothing,
\* and a terminal callback (OnCompleted, OnFailed, OnCancelled) that is
\* handled writes nothing: phase, startTimestamp and completionTimestamp of
\* the record are as before the call.
GetErrorWritesNothing ==
    [][\A n \in Nodes, r \in Names :
          "get" \in faults =>
             /\ ReconcileBegins(n, r) =>
                   /\ pc'[n][r] = "error"
                   /\ store' = store
             /\ TerminalCallbackHandled(r) =>
                   /\ store'[r].phase = store[r].phase
                   /\ store'[r].start = store[r].start
                   /\ store'[r].completion = store[r].completion]_vars

\* C36, its case: the Get fails, the session's terminal callback has been
\* handled and the record is still InProgress without a completionTimestamp,
\* and a Reconcile of the key has returned the error
CallbackHandledWithoutGet ==
    \E r \in Names :
       /\ "get" \in faults
       /\ sess[r] = "patched"
       /\ store[r].phase = "InProgress"
       /\ store[r].completion = 0
       /\ pc["n2"][r] = "error"
       /\ crashes = 0

(* ------------------------------ claim C37 ------------------------------ *)

Processes(c) == work[c].at = "got" /\ work'[c].at = "started"

\* every write to a PodVolumeRestore is made by a processRestore that was
\* handed a copy with phase "" or New and a pod on this node whose
\* restic-wait init container is running
ProcessedOnlyFromNewCopy ==
    [][\A v \in PvrNames :
          pvrs'[v] # pvrs[v] =>
             \E c \in Controllers :
                /\ work[c].key = v
                /\ work[c].at # "idle"
                /\ work'[c] # work[c]
                /\ isPodOnNode(PodOf(c), nodeName)
                /\ isResticInitContainerRunning(PodOf(c))
                /\ Processes(c) => isPVRNew(work[c].req)]_vars

\* C38: processRestore writes nothing to a PodVolumeRestore unless its phase
\* is "" or New, its pod is on this node and the pod's restic-wait init
\* container is running; a PodVolumeRestore that is InProgress, Completed or
\* Failed is never processed again and processRestore never changes its
\* phase by starting it again.
NotNewNeverProcessed ==
    [][\A c \in Controllers :
          Processes(c) =>
             /\ isPVRNew(pvrs[work[c].key])
             /\ isPodOnNode(PodOf(c), nodeName)
             /\ isResticInitContainerRunning(PodOf(c))]_vars

(* ------------------------------ claim C39 ------------------------------ *)

\* C39: when restoring the volume fails inside restorePodVolume (the
\* credentials file, the backup storage location, the restic environment or
\* the restic run), processRestore leaves the PodVolumeRestore Failed with
\* a message and completionTimestamp and returns: it does not go on to patch
\* it to Completed.
FailedRestoreStaysFailed ==
    [][\A c \in Controllers :
          LET v == work[c].key
          IN  /\ (work[c].at = "started" /\ work'[c] # work[c]
                    /\ pvrs'[v] # pvrs[v]) =>
                      /\ pvrs'[v].phase = "Failed"
                      /\ pvrs'[v].message # ""
                      /\ pvrs'[v].completion # 0
              /\ (work[c].at = "restored" /\ work[c].req.phase = "Failed"
                    /\ work'[c] # work[c]) =>
                      pvrs'[v].phase # "Completed"]_vars

(* ------------------------------ claim C40 ------------------------------ *)

\* C40: a PodVolumeRestore is executed at most once: of the PodReconciler
\* and the PodVolumeRestoreReconciler, running at the same time for the same
\* new PodVolumeRestore, at most one calls restorePodVolume.
ExecutedAtMostOnce ==
    \A v \in PvrNames : restores[v] <= 1

====
